---- MODULE Spec2Model ----
(***************************************************************************)
(* Model of the reactivity core of Vue 2.5.17-beta.0: Dep (dep.js),        *)
(* Watcher and defineReactive (watcher.js / observer/index.js, kept in     *)
(* unnamed/part_001), the scheduler (scheduler.js, kept in the second half *)
(* of observer/array.js) and the computed getter of instance/state.js.     *)
(*                                                                         *)
(* JavaScript is single threaded: a setter, a watcher construction and one *)
(* iteration of the flush loop each run to completion, so each is one      *)
(* action.  The synchronous call chains (setter -> notify -> update ->     *)
(* getAndInvoke -> get -> getter -> reads ...) are recursive operators     *)
(* over a record s that holds the whole program state.                     *)
(***************************************************************************)
EXTENDS Integers, Sequences, FiniteSets, TLC

\* ------------------------------------------------------------------ bounds
MaxVal == 2      \* numbers stored in data properties are 0..MaxVal
MaxQueue == 104  \* the flush loop is not continued once the queue is this long
MaxLen == 3      \* arrays are not grown beyond this length

\* ------------------------------------------------------- program constants
MAX_UPDATE_COUNT == 100

\* --------------------------------------------------- encoding of JS values
\* numbers are themselves; the other values get codes outside 0..MaxVal
NaN == -1
Undefined == -2
Frozen1 == 100   \* two distinct frozen objects: isObject is true of them and
Frozen2 == 101   \* observe() gives them no Observer (not extensible)
None == 0        \* no watcher (Dep.target null / undefined); watcher ids start at 1
NoDep == -1      \* a watcher without its own Dep (not computed)

\* the plain objects and arrays that user code creates, by reference:
\*   O1 = { x: O2 }   O2 = { y: 1 }   O3 = { y: 0 }   A1 = [1, 0]
O1 == 201
O2 == 202
O3 == 203
A1 == 204
Objs == {O1, O2, O3, A1}
Keys == {"x", "y", "z"}

Modulus == MaxVal + 1
isNumber(v) == v >= 0 /\ v < Frozen1
isObject(v) == v >= Frozen1
\* x === y
StrictEq(x, y) == x = y /\ x # NaN
\* (x + y) % Modulus in JavaScript: anything that is not a number gives NaN
JsAddMod(x, y) == IF isNumber(x) /\ isNumber(y) THEN (x + y) % Modulus ELSE NaN
\* Math.min(x, 1)
JsMin1(x) == IF isNumber(x) THEN (IF x < 1 THEN x ELSE 1) ELSE NaN
\* the truthiness of x
Truthy(x) == isObject(x) \/ (isNumber(x) /\ x # 0)

\* ----------------------------------------------------------- the vm's data
\* data () { return { a, b, c, o } }: observe(data) creates the Observer's Dep
\* (id 0) and then one Dep per key, in key order (ids 1..4).
Props == <<"a", "b", "c", "o">>
PropSet == {Props[i] : i \in 1..Len(Props)}
PropDep(p) == CHOOSE i \in 1..Len(Props) : Props[i] = p

\* An object of the heap: ob is the Dep id of its Observer (__ob__), own its
\* own keys in definition order, f[k] the value of key k with the dep and the
\* childOb of its defineReactive closure (dep is NoDep for a plain data
\* property), elems the elements of an array.
NoField == [val |-> Undefined, dep |-> NoDep, childOb |-> NoDep]
Field(v) == [val |-> v, dep |-> NoDep, childOb |-> NoDep]
PlainObject(k, v) ==
  [arr |-> FALSE, ob |-> NoDep, vmCount |-> 0, own |-> <<k>>,
   f |-> [j \in Keys |-> IF j = k THEN Field(v) ELSE NoField], elems |-> <<>>]
Array(elems) ==
  [arr |-> TRUE, ob |-> NoDep, vmCount |-> 0, own |-> <<>>,
   f |-> [j \in Keys |-> NoField], elems |-> elems]
RawHeap ==
  [r \in Objs |->
     CASE r = O1 -> PlainObject("x", O2)
       [] r = O2 -> PlainObject("y", 1)
       [] r = O3 -> PlainObject("y", 0)
       [] r = A1 -> Array(<<1, 0>>)]

\* ------------------------------------------------- the watchers of the vm
\* What a getter or a callback reads: a data property or a computed property.
\* Path(p, keys) is vm[p][keys[1]][keys[2]]..., "length" being a key of arrays.
Prop(p) == [k |-> "prop", p |-> p, w |-> 0, path |-> <<>>]
Comp(w) == [k |-> "comp", p |-> "", w |-> w, path |-> <<>>]
Path(p, keys) == [k |-> "path", p |-> p, w |-> 0, path |-> keys]

\* getter kinds:
\*   "sum"    () => (x1 + x2 + ...) % Modulus      reads every source in order
\*   "min1"   () => Math.min(x1, 1)
\*   "last"   () => { x1; ...; return xn }         reads every source in order
\*   "cond"   () => x1 ? x2 : x3
\*   "bumpget" () => { const v = x1; vm[wr] = (v + 1) % Modulus; return v }
\*   "throwif" () => { const v = x1; if (v) throw new Error(); return v }
\*   "downcond" () => { if (x1) { watcher w.teardown(); return x2 } return x3 }
\*   "setonce" () => { if (x1 === 0) vm[wr] = 1; return x2 }
\*   "getdata" () => { x1; getData(() => { x2; x3; return {} }); return x4 }
\*            the render of a parent whose child takes its data from a function
\*   "keepalive" () => { if (x1 && vm._isMounted) { queueActivatedComponent(
\*            child 1); queueActivatedComponent(child 2) } return x2 }
\*            the render of a vm that shows two kept-alive children while x1
\*            is truthy; the vm is mounted once its render watcher is
\*            constructed, so every later render runs inside a flush
\* callback kinds:
\*   "none"   noop
\*   "bump"   (val) => { vm[wr] = (val + 1) % Modulus }
\*   "copy"   (val) => { vm[wr] = val }
\*   "throw"  () => { throw new Error() }
\*   "down"   () => { watcher w.teardown() }
\* options.before kinds:
\*   "none"   no before option
\*   "copy"   () => { vm[wr] = vm[src] }
\*            the beforeUpdate hook of a mounted vm
G(kind, srcs, wr) == [kind |-> kind, srcs |-> srcs, wr |-> wr, w |-> 0]
GW(kind, srcs, w) == [kind |-> kind, srcs |-> srcs, wr |-> "a", w |-> w]
CB(kind, wr) == [kind |-> kind, wr |-> wr, w |-> 0]
CBW(kind, w) == [kind |-> kind, wr |-> "a", w |-> w]
Wopt(computed, sync, user, deep, getter, cb) ==
  [computed |-> computed, sync |-> sync, user |-> user, deep |-> deep,
   getter |-> getter, cb |-> cb,
   before |-> [kind |-> "none", src |-> "a", wr |-> "a"]]
Computed(getter) == Wopt(TRUE, FALSE, FALSE, FALSE, getter, CB("none", "a"))
Render(getter) == Wopt(FALSE, FALSE, FALSE, FALSE, getter, CB("none", "a"))
RenderBefore(getter, src, wr) ==
  [Render(getter) EXCEPT !.before = [kind |-> "copy", src |-> src, wr |-> wr]]
User(getter, cb) == Wopt(FALSE, FALSE, TRUE, FALSE, getter, cb)
SyncUser(getter, cb) == Wopt(FALSE, TRUE, TRUE, FALSE, getter, cb)
DeepUser(getter, cb) == Wopt(FALSE, FALSE, TRUE, TRUE, getter, cb)

Scenarios == {"diamond", "objcomp", "cycle", "mutual", "sync", "getterwrite"}

\* the vms whose data holds a plain object (deep, suspend) or an array (array)
ObsScenarios == {"deep", "array", "suspend"}

\* the vms whose watchers are torn down or throw
LifeScenarios ==
  {"teardown", "downcond", "throw", "reenter", "snapshot", "getdata", "hook",
   "chain"}

\* The watchers a scenario creates, in creation order (watcher id = position).
Config(sc) ==
  CASE sc = "diamond" ->
         << Computed(G("min1", <<Prop("a")>>, "a")),
            Computed(G("sum", <<Prop("a"), Prop("b")>>, "a")),
            Render(G("sum", <<Comp(1), Comp(2)>>, "a")),
            User(G("last", <<Prop("a")>>, "a"), CB("none", "a")) >>
    [] sc = "objcomp" ->
         << Computed(G("last", <<Prop("b"), Prop("o")>>, "a")),
            Computed(G("sum", <<Prop("a"), Prop("b")>>, "a")),
            Render(G("last", <<Comp(1)>>, "a")),
            User(G("last", <<Comp(2)>>, "a"), CB("none", "a")) >>
    [] sc = "cycle" ->
         << User(G("last", <<Prop("a")>>, "a"), CB("bump", "a")),
            Render(G("sum", <<Prop("a"), Prop("b")>>, "a")) >>
    [] sc = "mutual" ->
         << User(G("last", <<Prop("a")>>, "a"), CB("bump", "b")),
            User(G("last", <<Prop("b")>>, "a"), CB("bump", "a")) >>
    [] sc = "sync" ->
         << Computed(G("min1", <<Prop("a")>>, "a")),
            SyncUser(G("sum", <<Comp(1), Prop("b")>>, "a"), CB("copy", "c")),
            Render(G("last", <<Prop("c")>>, "a")),
            User(G("last", <<Prop("a")>>, "a"), CB("copy", "b")) >>
    [] sc = "getterwrite" ->
         << Render(G("last", <<Prop("b")>>, "a")),
            Render(G("bumpget", <<Prop("a")>>, "a")) >>
    [] sc = "deep" ->
         << DeepUser(G("last", <<Prop("o")>>, "a"), CB("none", "a")),
            User(G("last", <<Path("o", <<"x", "y">>)>>, "a"), CB("none", "a")) >>
    [] sc = "suspend" ->
         << Render(G("last", <<Path("o", <<"x", "y">>)>>, "a")) >>
    [] sc = "array" ->
         << SyncUser(G("last", <<Path("o", <<"length">>)>>, "a"), CB("copy", "c")),
            Render(G("last", <<Prop("o")>>, "a")) >>
    [] sc = "teardown" ->
         << User(G("last", <<Prop("a")>>, "a"), CBW("down", 3)),
            Computed(G("min1", <<Prop("a")>>, "a")),
            Render(G("sum", <<Comp(2), Prop("b")>>, "a")),
            User(G("last", <<Prop("a"), Prop("a")>>, "a"), CB("none", "a")) >>
    [] sc = "downcond" ->
         << User(GW("downcond", <<Prop("a"), Prop("c"), Prop("b")>>, 1),
                 CB("none", "a")),
            Render(G("last", <<Prop("a"), Prop("c")>>, "a")) >>
    [] sc = "throw" ->
         << User(G("last", <<Prop("a")>>, "a"), CB("throw", "a")),
            Render(G("throwif", <<Prop("b")>>, "a")),
            User(G("throwif", <<Prop("b")>>, "a"), CB("none", "a")) >>
    [] sc = "reenter" ->
         << SyncUser(G("setonce", <<Prop("a"), Prop("b")>>, "a"), CB("none", "a")),
            Render(G("last", <<Prop("a")>>, "a")) >>
    [] sc = "getdata" ->
         << Computed(G("min1", <<Prop("a")>>, "a")),
            Render(G("getdata", <<Prop("c"), Comp(1), Prop("b"), Prop("a")>>,
                     "a")) >>
    [] sc = "chain" ->
         << Computed(G("min1", <<Prop("a")>>, "a")),
            Computed(G("sum", <<Prop("a"), Comp(1)>>, "a")),
            Render(G("last", <<Comp(2)>>, "a")) >>
    [] sc = "hook" ->
         << User(G("last", <<Prop("b"), Prop("c")>>, "a"), CB("none", "a")),
            RenderBefore(G("keepalive", <<Prop("a"), Prop("b")>>, "a"),
                         "a", "c") >>
    [] sc = "snapshot" ->
         << Computed(G("min1", <<Prop("b")>>, "a")),
            SyncUser(G("cond", <<Prop("b"), Comp(1), Prop("c")>>, "a"),
                     CBW("down", 3)),
            User(G("last", <<Prop("b")>>, "a"), CB("none", "a")) >>

\* The values user code outside the watchers assigns to a property.
Inputs(sc, p) ==
  CASE sc = "diamond" -> IF p = "a" THEN 0..MaxVal \cup {NaN}
                         ELSE IF p = "b" THEN {0, 1} ELSE {}
    [] sc = "objcomp" -> IF p = "a" THEN {0, NaN}
                         ELSE IF p = "b" THEN {0, 1}
                         ELSE IF p = "o" THEN {Frozen1, Frozen2} ELSE {}
    [] sc = "cycle" -> IF p = "a" THEN {0, 1, NaN}
                       ELSE IF p = "b" THEN {0, 1} ELSE {}
    [] sc = "mutual" -> IF p = "a" THEN {0, 1} ELSE {}
    [] sc = "sync" -> IF p = "a" THEN 0..MaxVal \cup {NaN}
                      ELSE IF p = "b" THEN {0, 1} ELSE {}
    [] sc = "getterwrite" -> IF p \in {"a", "b"} THEN {0, 1} ELSE {}
    [] sc = "deep" -> {}
    [] sc = "suspend" -> {}
    [] sc = "array" -> IF p = "o" THEN {A1, Frozen1, NaN} ELSE {}
    [] sc = "teardown" -> IF p = "a" THEN {0, 1} ELSE {}
    [] sc = "downcond" -> IF p \in {"a", "b", "c"} THEN {0, 1} ELSE {}
    [] sc = "throw" -> IF p \in {"a", "b"} THEN {0, 1} ELSE {}
    [] sc = "reenter" -> IF p \in {"a", "b"} THEN {0, 1} ELSE {}
    [] sc = "snapshot" -> IF p \in {"b", "c"} THEN {0, 1} ELSE {}
    [] sc = "getdata" -> IF p \in {"a", "b", "c"} THEN {0, 1} ELSE {}
    [] sc = "hook" -> IF p \in {"a", "b"} THEN {0, 1} ELSE {}
    [] sc = "chain" -> IF p = "a" THEN 0..MaxVal ELSE {}

\* The hooks of the components: watcher is the render watcher (vm._watcher) of
\* the mounted vm, 0 if the vm is not mounted; updated is its updated hook
\* and activated the activated hook of each kept-alive child,
\*   "none"   no hook
\*   "copy"   () => { vm[wr] = vm[src] }
Hooks(sc) ==
  IF sc = "hook"
  THEN [watcher |-> 2, updated |-> [kind |-> "copy", src |-> "a", wr |-> "b"],
        activated |-> [kind |-> "copy", src |-> "a", wr |-> "c"]]
  ELSE IF sc = "cycle"
  THEN [watcher |-> 2, updated |-> [kind |-> "none", src |-> "a", wr |-> "a"],
        activated |-> [kind |-> "none", src |-> "a", wr |-> "a"]]
  ELSE [watcher |-> 0, updated |-> [kind |-> "none", src |-> "a", wr |-> "a"],
        activated |-> [kind |-> "none", src |-> "a", wr |-> "a"]]

\* The assignments value[key] = x that user code makes, as <<value, key, x>>.
FieldInputs(sc) ==
  IF sc = "deep"
  THEN {<<O2, "y", 1>>, <<O2, "y", 2>>, <<O1, "x", O3>>}
  ELSE IF sc = "suspend" THEN {<<O1, "x", O3>>, <<O1, "x", O2>>}
  ELSE {}

\* The calls array[method](...args) that user code makes, as <<method, args>>.
ArrayCalls ==
  << <<"push", <<O3>> >>, <<"pop", <<>> >>,
     <<"shift", <<>> >>, <<"unshift", <<O3>> >>, <<"splice", <<0, 1, O3>> >>,
     <<"splice", <<1, 1>> >>, <<"sort", <<>> >>, <<"reverse", <<>> >> >>
ArrayInputs(sc) == IF sc = "array" THEN {A1} ELSE {}

\* The calls set(target, key, x) that user code makes, as <<target, key, x>>.
SetInputs(sc) ==
  IF sc = "deep"
  THEN {<<O1, "z", 1>>, <<O2, "y", 2>>}
  ELSE IF sc = "array" THEN {<<A1, 2, O3>>}
  ELSE {}

\* The calls del(target, key) that user code makes, as <<target, key>>.
DelInputs(sc) ==
  IF sc = "deep"
  THEN {<<O1, "x">>, <<O3, "y">>, <<O3, "x">>}
  ELSE IF sc = "array" THEN {<<A1, 0>>}
  ELSE {}

\* The values that toggleObserving is called with.
ToggleInputs(sc) == IF sc \in {"deep", "suspend"} THEN BOOLEAN ELSE {}

\* The objects that another vm takes as its data.
VmInputs(sc) == IF sc = "deep" THEN {O1} ELSE {}

\* The watchers that code outside the watchers tears down (by unwatch()).
Unwatched(sc) ==
  IF sc = "teardown" THEN {2, 4} ELSE IF sc = "chain" THEN {3} ELSE {}

MaxWatchers == 4
WatcherIds == 1..MaxWatchers

VARIABLES
  scenario,     \* which set of watchers the vm declares
  production,   \* process.env.NODE_ENV === 'production'
  val,          \* defineReactive: the closed-over val of each property
  childOb,      \* defineReactive: the closed-over childOb of each property
  heap,         \* the objects and arrays the data refers to
  shouldObserve, \* observer/index.js: shouldObserve
  subs,         \* Dep.subs, by Dep id
  depUid,       \* dep.js: uid
  target,       \* Dep.target
  targetStack,  \* dep.js: targetStack
  watchers,     \* the Watcher objects, by id (watcher.js uid = Len(watchers))
  queue,        \* scheduler: queue
  has,          \* scheduler: has
  circular,     \* scheduler: circular
  waiting,      \* scheduler: waiting
  flushing,     \* scheduler: flushing
  index,        \* scheduler: index
  activatedChildren, \* scheduler: activatedChildren (kept-alive components)
  callbacks,    \* flushSchedulerQueue callbacks handed to nextTick, not yet called
  pc,           \* "idle", or the position inside flushSchedulerQueue
  trace,        \* history: what the last action did, in order
  last,         \* history: the last action and its arguments
  reads,        \* history: the Deps each watcher called depend() on in its last get()
  runLog,       \* history: the watchers run() by the current / last flush, in order
  flushWrote,   \* history: a setter changed a value during the current / last flush
  flushEnq,     \* history: queueWatcher accepted a node during the current / last flush
  due,          \* history: deferred nodes that had read a property when it was changed
  twice,        \* history: deferred nodes one write called update() on more than once
  warned,       \* history: the last flush emitted the infinite-update-loop warning
  enqOrder,     \* history: the queue as the current / last flush found it, unsorted
  observers,    \* history: how many times new Observer(value) ran, by value
  torn,         \* history: the watchers whose teardown() has been called
  escaped,      \* history: the last operation ended by an exception it did not catch
  stale,        \* history: the computed watchers of which a read, in the last
                \* operation, returned the cached value while their getter
                \* gave another value on the data of that moment
  mark          \* history: the configuration the current flush loop was in at its
                \* last checkpoint (before iteration 1, 2, 3, 5, 9, 17, ...)

vars == <<scenario, production, val, childOb, heap, shouldObserve, observers,
          subs, depUid, target, targetStack, watchers,
          queue, has, circular, waiting, flushing, index, activatedChildren,
          callbacks, pc,
          trace, last, reads, runLog, flushWrote, flushEnq, due, twice, warned,
          enqOrder, torn, escaped, stale, mark>>

Options(w) == Config(scenario)[w]

\* The program state as one record, for the operators below.
Cur ==
  [val |-> val, childOb |-> childOb, heap |-> heap,
   shouldObserve |-> shouldObserve, observers |-> observers,
   subs |-> subs, depUid |-> depUid, target |-> target,
   targetStack |-> targetStack, watchers |-> watchers, queue |-> queue,
   has |-> has, circular |-> circular, waiting |-> waiting,
   flushing |-> flushing, index |-> index,
   activatedChildren |-> activatedChildren, callbacks |-> callbacks,
   trace |-> <<>>, reads |-> reads, exc |-> FALSE, stale |-> {}]

Log(s, e, n) == [s EXCEPT !.trace = Append(@, <<e, n>>)]

\* ------------------------------------------------------------------ dep.js
RemoveFirst(seq, x) ==
  IF \E i \in 1..Len(seq) : seq[i] = x
  THEN LET i == CHOOSE j \in 1..Len(seq) :
                  seq[j] = x /\ \A k \in 1..(j - 1) : seq[k] # x
       IN SubSeq(seq, 1, i - 1) \o SubSeq(seq, i + 1, Len(seq))
  ELSE seq

addSub(s, d, w) == [s EXCEPT !.subs[d] = Append(@, w)]
removeSub(s, d, w) == [s EXCEPT !.subs[d] = RemoveFirst(@, w)]

\* the watcher w is the target or on the target stack: its get() is running
Evaluating(s, w) ==
  s.target = w \/ \E i \in 1..Len(s.targetStack) : s.targetStack[i] = w

pushTarget(s, t) ==
  [s EXCEPT !.targetStack = IF s.target # None THEN Append(@, s.target) ELSE @,
            !.target = t]
popTarget(s) ==
  IF Len(s.targetStack) = 0
  THEN [s EXCEPT !.target = None]
  ELSE [s EXCEPT !.target = s.targetStack[Len(s.targetStack)],
                 !.targetStack = SubSeq(@, 1, Len(@) - 1)]

\* -------------------------------------------------------------- watcher.js
\* addDep that does not look at depIds
addDepAgain(s, w, d) ==
  IF d \notin s.watchers[w].newDepIds
  THEN addSub([s EXCEPT !.watchers[w].newDepIds = @ \cup {d},
                        !.watchers[w].newDeps = Append(@, d)], d, w)
  ELSE s

\* Watcher.addDep
addDep(s, w, d) ==
  IF d \notin s.watchers[w].newDepIds
  THEN LET s1 == [s EXCEPT !.watchers[w].newDepIds = @ \cup {d},
                           !.watchers[w].newDeps = Append(@, d)]
       IN IF d \notin s.watchers[w].depIds THEN addSub(s1, d, w) ELSE s1
  ELSE s

\* Dep.depend
depend(s, d) ==
  IF s.target # None
  THEN addDep([s EXCEPT !.reads[s.target] = @ \cup {d}], s.target, d)
  ELSE s

RECURSIVE cleanupLoop(_, _, _)
cleanupLoop(s, w, i) ==
  IF i = 0 THEN s
  ELSE LET d == s.watchers[w].deps[i]
       IN cleanupLoop(IF d \notin s.watchers[w].newDepIds
                      THEN removeSub(s, d, w) ELSE s, w, i - 1)

cleanupDeps(s, w) ==
  LET s1 == cleanupLoop(s, w, Len(s.watchers[w].deps))
  IN [s1 EXCEPT !.watchers[w].depIds = s1.watchers[w].newDepIds,
                !.watchers[w].newDepIds = {},
                !.watchers[w].deps = s1.watchers[w].newDeps,
                !.watchers[w].newDeps = <<>>]

RECURSIVE teardownLoop(_, _, _)
\* the while (i--) loop of teardown
teardownLoop(s, w, i) ==
  IF i = 0 THEN s
  ELSE teardownLoop(removeSub(s, s.watchers[w].deps[i], w), w, i - 1)

\* Watcher.teardown
teardown(s, w) ==
  IF s.watchers[w].active
  THEN [teardownLoop(Log(s, "teardown", w), w, Len(s.watchers[w].deps))
          EXCEPT !.watchers[w].active = FALSE]
  ELSE Log(s, "teardown", w)

\* throw new Error(): s.exc says that an exception is on its way up the stack
throw(s) == Log([s EXCEPT !.exc = TRUE], "throw", 0)

\* handleError(e, vm, info): the error is reported and the caller goes on
handleError(s, w) == Log([s EXCEPT !.exc = FALSE], "error", w)

\* --------------------------------------------------------------- scheduler
RECURSIVE spliceIndex(_, _, _, _)
\* the while loop of queueWatcher; queue[i] of the code is q[i + 1] here
spliceIndex(q, idx, wid, i) ==
  IF i > idx /\ q[i + 1] > wid THEN spliceIndex(q, idx, wid, i - 1) ELSE i

\* nextTick(flushSchedulerQueue)
nextTick(s) == Log([s EXCEPT !.callbacks = @ + 1], "nextTick", 0)

\* queueWatcher that pushes a node whether or not it is already queued
queueWatcherNoDedup(s, w) ==
  LET s1 == Log([s EXCEPT !.has[w] = TRUE], "queue", w)
      s2 == IF ~s1.flushing
            THEN [s1 EXCEPT !.queue = Append(@, w)]
            ELSE LET i == spliceIndex(s1.queue, s1.index, w, Len(s1.queue) - 1)
                 IN [s1 EXCEPT !.queue = SubSeq(@, 1, i + 1) \o <<w>>
                                          \o SubSeq(@, i + 2, Len(@))]
  IN IF ~s2.waiting THEN nextTick([s2 EXCEPT !.waiting = TRUE]) ELSE s2

\* queueWatcher that tests flushing instead of waiting before nextTick
queueWatcherNoWaiting(s, w) ==
  IF ~s.has[w]
  THEN LET s1 == Log([s EXCEPT !.has[w] = TRUE], "queue", w)
           s2 == IF ~s1.flushing
                 THEN [s1 EXCEPT !.queue = Append(@, w)]
                 ELSE LET i == spliceIndex(s1.queue, s1.index, w, Len(s1.queue) - 1)
                      IN [s1 EXCEPT !.queue = SubSeq(@, 1, i + 1) \o <<w>>
                                               \o SubSeq(@, i + 2, Len(@))]
       IN IF ~s2.flushing THEN nextTick([s2 EXCEPT !.waiting = TRUE]) ELSE s2
  ELSE s

\* queueWatcher that pushes the node at the end of the queue while flushing too
queueWatcherPushOnly(s, w) ==
  IF ~s.has[w]
  THEN LET s1 == Log([s EXCEPT !.has[w] = TRUE], "queue", w)
           s2 == [s1 EXCEPT !.queue = Append(@, w)]
       IN IF ~s2.waiting THEN nextTick([s2 EXCEPT !.waiting = TRUE]) ELSE s2
  ELSE s

\* scheduler.js queueWatcher
queueWatcher(s, w) ==
  IF ~s.has[w]
  THEN LET s1 == Log([s EXCEPT !.has[w] = TRUE], "queue", w)
           s2 == IF ~s1.flushing
                 THEN [s1 EXCEPT !.queue = Append(@, w)]
                 ELSE LET i == spliceIndex(s1.queue, s1.index, w, Len(s1.queue) - 1)
                      IN [s1 EXCEPT !.queue = SubSeq(@, 1, i + 1) \o <<w>>
                                               \o SubSeq(@, i + 2, Len(@))]
       IN IF ~s2.waiting THEN nextTick([s2 EXCEPT !.waiting = TRUE]) ELSE s2
  ELSE s

\* scheduler.js queueActivatedComponent, called by the patch of a mounted vm
\* for a kept-alive child that is inserted again
queueActivatedComponent(s, child) ==
  [s EXCEPT !.activatedChildren = Append(@, child)]

\* ----------------------------------------- observer/index.js: the Observer
\* new Dep(): the Dep with the next uid (s.depUid before the call), subs empty
newDep(s) ==
  [s EXCEPT !.depUid = @ + 1,
            !.subs = [d \in 0..s.depUid |-> IF d < s.depUid THEN s.subs[d] ELSE <<>>]]

isArray(v) == v \in Objs /\ RawHeap[v].arr
\* hasOwn(value, '__ob__') && value.__ob__ instanceof Observer
hasOb(s, v) == v \in Objs /\ s.heap[v].ob # NoDep

RECURSIVE observe(_, _), Observer(_, _), walk(_, _, _), observeArray(_, _, _),
          defineReactive(_, _, _, _)

\* observe that does not look for an existing __ob__
observeNoReuse(s, v) ==
  IF ~isObject(v) THEN [s |-> s, ob |-> NoDep]
  ELSE IF s.shouldObserve /\ v \in Objs THEN Observer(s, v)
  ELSE [s |-> s, ob |-> NoDep]

\* observe(value): the result is [s |-> state, ob |-> the Dep id of the
\* Observer returned, NoDep for undefined]; only the values of Objs are
\* extensible plain objects or arrays
observe(s, v) ==
  IF ~isObject(v) THEN [s |-> s, ob |-> NoDep]
  ELSE IF hasOb(s, v) THEN [s |-> s, ob |-> s.heap[v].ob]
  ELSE IF s.shouldObserve /\ v \in Objs THEN Observer(s, v)
  ELSE [s |-> s, ob |-> NoDep]

\* observe(value, true) of initData: ob.vmCount++
observeRootData(s, v) ==
  LET o == observe(s, v)
  IN IF o.ob # NoDep THEN [o.s EXCEPT !.heap[v].vmCount = @ + 1] ELSE o.s

\* the rest of the Observer constructor, after def(value, '__ob__', this)
ObserverThen(s, v, dep) ==
  [s |-> IF isArray(v) THEN observeArray(s, s.heap[v].elems, 1) ELSE walk(s, v, 1),
   ob |-> dep]

\* new Observer(value)
Observer(s, v) ==
  ObserverThen(Log([newDep(s) EXCEPT !.heap[v].ob = s.depUid,
                                     !.heap[v].vmCount = 0,
                                     !.observers[v] = @ + 1], "observer", v),
               v, s.depUid)

\* Observer.walk: defineReactive(obj, keys[i]) for the keys from the i-th on
walk(s, v, i) ==
  IF i > Len(s.heap[v].own) THEN s
  ELSE walk(defineReactive(s, v, s.heap[v].own[i], s.heap[v].f[s.heap[v].own[i]].val),
            v, i + 1)

\* Observer.observeArray: observe(items[i]) for the items from the i-th on
observeArray(s, items, i) ==
  IF i > Len(items) THEN s
  ELSE observeArray(observe(s, items[i]).s, items, i + 1)

\* the Object.defineProperty of defineReactive, o the result of observe(val)
defineReactiveThen(o, v, k, x, dep) ==
  [o.s EXCEPT !.heap[v].f[k] = [val |-> x, dep |-> dep, childOb |-> o.ob],
              !.heap[v].own = IF \E i \in 1..Len(@) : @[i] = k THEN @
                              ELSE Append(@, k)]

\* defineReactive(obj, key, val) on the object v of the heap
defineReactive(s, v, k, x) ==
  defineReactiveThen(observe(newDep(s), x), v, k, x, s.depUid)

RECURSIVE dependArray(_, _, _)
\* dependArray(value): the elements from the i-th on
dependArray(s, v, i) ==
  IF i > Len(s.heap[v].elems) THEN s
  ELSE LET e == s.heap[v].elems[i]
           s1 == IF hasOb(s, e) THEN depend(s, s.heap[e].ob) ELSE s
       IN dependArray(IF isArray(e) THEN dependArray(s1, e, 1) ELSE s1, v, i + 1)

\* a reactiveGetter that calls depend() on the Dep of the property only
collectOwnDepOnly(s, dep, child, value) == depend(s, dep)

\* the body of reactiveGetter when Dep.target is set
collect(s, dep, child, value) ==
  LET s1 == depend(s, dep)
      s2 == IF child # NoDep THEN depend(s1, child) ELSE s1
  IN IF child # NoDep /\ isArray(value) THEN dependArray(s2, value, 1) ELSE s2

\* value[key] read by a getter: the reactive getter of the key if
\* defineReactive has installed one, the length of an array
fieldGet(s, v, k) ==
  IF v \notin Objs THEN [s |-> s, v |-> Undefined]
  ELSE IF k = "length"
  THEN [s |-> s, v |-> IF isArray(v) THEN Len(s.heap[v].elems) ELSE Undefined]
  ELSE [s |-> IF s.heap[v].f[k].dep # NoDep /\ s.target # None
              THEN collect(s, s.heap[v].f[k].dep, s.heap[v].f[k].childOb,
                           s.heap[v].f[k].val)
              ELSE s,
        v |-> s.heap[v].f[k].val]

RECURSIVE readPath(_, _, _)
\* r.v[keys[i]][keys[i + 1]]...
readPath(r, keys, i) ==
  IF i > Len(keys) THEN r ELSE readPath(fieldGet(r.s, r.v, keys[i]), keys, i + 1)

RECURSIVE traverseInner(_, _), traverseKeys(_, _, _), traverseElems(_, _, _)
\* _traverse(val, seen) of traverse.js: t is [s |-> state, seen |-> seen]
traverseInner(t, v) ==
  IF v \notin Objs THEN t
  ELSE IF hasOb(t.s, v) /\ t.s.heap[v].ob \in t.seen THEN t
  ELSE IF isArray(v)
  THEN traverseElems([t EXCEPT !.seen = IF hasOb(t.s, v)
                                        THEN @ \cup {t.s.heap[v].ob} ELSE @],
                     v, Len(t.s.heap[v].elems))
  ELSE traverseKeys([t EXCEPT !.seen = IF hasOb(t.s, v)
                                       THEN @ \cup {t.s.heap[v].ob} ELSE @],
                    v, Len(t.s.heap[v].own))

\* while (i--) _traverse(val[keys[i]], seen)
traverseKeys(t, v, i) ==
  IF i = 0 THEN t
  ELSE LET r == fieldGet(t.s, v, t.s.heap[v].own[i])
       IN traverseKeys(traverseInner([t EXCEPT !.s = r.s], r.v), v, i - 1)

\* while (i--) _traverse(val[i], seen)
traverseElems(t, v, i) ==
  IF i = 0 THEN t
  ELSE traverseElems(traverseInner(t, t.s.heap[v].elems[i]), v, i - 1)

\* traverse(val)
traverse(s, v) == traverseInner([s |-> s, seen |-> {}], v).s

\* ---------------------------------------- watcher.js and observer/index.js
\* An operator that runs a getter returns the record [s |-> state, v |-> value];
\* the operator named fExit / fThen is the part of f after the call it makes.
RECURSIVE notifyLoop(_, _, _), update(_, _), run(_, _), getAndInvoke(_, _, _),
          get(_, _), evaluate(_, _), computedGetter(_, _), reactiveSetter(_, _, _),
          readAll(_, _, _, _), read(_, _), getter(_, _), callback(_, _, _, _)

\* Dep.notify: update every watcher of the snapshot, in order
notifyLoop(s, snapshot, i) ==
  IF i > Len(snapshot) \/ s.exc THEN s
  ELSE notifyLoop(update(s, snapshot[i]), snapshot, i + 1)

\* Dep.notify that copies subs only after the first update
notifySnapshotLate(s, d) ==
  IF s.subs[d] = <<>> THEN Log(s, "notify", d)
  ELSE LET s1 == update(Log(s, "notify", d), s.subs[d][1])
       IN notifyLoop(s1, s1.subs[d], 2)

\* Dep.notify: const subs = this.subs.slice(), then the loop
notify(s, d) == notifyLoop(Log(s, "notify", d), s.subs[d], 1)

\* the getter of a property of the vm's data
reactiveGetter(s, p) ==
  [s |-> IF s.target # None
         THEN collect(s, PropDep(p), s.childOb[p], s.val[p]) ELSE s,
   v |-> s.val[p]]

\* childOb = !shallow && observe(newVal): o is the result of observe
setChildOb(o, p) == [o.s EXCEPT !.childOb[p] = o.ob]

\* reactiveSetter without the NaN clause of its test
reactiveSetterStrictOnly(s, p, newVal) ==
  IF StrictEq(newVal, s.val[p])
  THEN s
  ELSE notify(setChildOb(observe(Log([s EXCEPT !.val[p] = newVal],
                                     "set", PropDep(p)), newVal), p),
              PropDep(p))

\* reactiveSetter that notifies the subscribers before it stores newVal
reactiveSetterNotifyFirst(s, p, newVal) ==
  IF StrictEq(newVal, s.val[p])
       \/ (~StrictEq(newVal, newVal) /\ ~StrictEq(s.val[p], s.val[p]))
  THEN s
  ELSE setChildOb(observe(Log([notify(s, PropDep(p)) EXCEPT !.val[p] = newVal],
                              "set", PropDep(p)), newVal), p)

\* the setter of a property of the vm's data
reactiveSetter(s, p, newVal) ==
  IF StrictEq(newVal, s.val[p])
       \/ (~StrictEq(newVal, newVal) /\ ~StrictEq(s.val[p], s.val[p]))
  THEN s
  ELSE notify(setChildOb(observe(Log([s EXCEPT !.val[p] = newVal],
                                     "set", PropDep(p)), newVal), p),
              PropDep(p))

\* Watcher.depend
watcherDepend(s, w) ==
  IF s.watchers[w].dep # NoDep /\ s.target # None
  THEN depend(s, s.watchers[w].dep) ELSE s

\* state.js createComputedGetter
computedGetter(s, w) ==
  IF w <= Len(s.watchers)
  THEN evaluate(watcherDepend(Log(s, "read", w), w), w)
  ELSE [s |-> s, v |-> Undefined]

\* vm[key] inside a getter: a data property or a computed property
read(s, src) ==
  IF src.k = "prop" THEN reactiveGetter(s, src.p)
  ELSE IF src.k = "path" THEN readPath(reactiveGetter(s, src.p), src.path, 1)
  ELSE computedGetter(s, src.w)

readAllThen(r, srcs, i, vs) ==
  IF r.s.exc THEN [s |-> r.s, v |-> vs]
  ELSE readAll(r.s, srcs, i + 1, Append(vs, r.v))

\* read srcs[i..] in order; vs collects the values read
readAll(s, srcs, i, vs) ==
  IF i > Len(srcs) THEN [s |-> s, v |-> vs]
  ELSE readAllThen(read(s, srcs[i]), srcs, i, vs)

RECURSIVE SumMod(_, _)
SumMod(vs, i) == IF i = Len(vs) THEN vs[i] ELSE JsAddMod(vs[i], SumMod(vs, i + 1))

\* the sources a getter reads whatever their values are
FirstReads(g) == IF g.kind \in {"sum", "last"} THEN g.srcs ELSE <<g.srcs[1]>>

\* the rest of the getter, once FirstReads have been read with values r.v
getterThen(r, g) ==
  CASE r.s.exc -> [s |-> r.s, v |-> Undefined]
    [] g.kind = "sum" -> [s |-> r.s, v |-> JsAddMod(SumMod(r.v, 1), 0)]
    [] g.kind = "min1" -> [s |-> r.s, v |-> JsMin1(r.v[1])]
    [] g.kind = "last" -> [s |-> r.s, v |-> r.v[Len(r.v)]]
    [] g.kind = "cond" ->
         read(r.s, IF Truthy(r.v[1]) THEN g.srcs[2] ELSE g.srcs[3])
    [] g.kind = "bumpget" ->
         [s |-> reactiveSetter(r.s, g.wr, JsAddMod(r.v[1], 1)), v |-> r.v[1]]
    [] g.kind = "throwif" ->
         IF Truthy(r.v[1]) THEN [s |-> throw(r.s), v |-> Undefined]
         ELSE [s |-> r.s, v |-> r.v[1]]
    [] g.kind = "downcond" ->
         IF Truthy(r.v[1]) THEN read(teardown(r.s, g.w), g.srcs[2])
         ELSE read(r.s, g.srcs[3])
    [] g.kind = "getdata" ->
         read(popTarget(readAll(pushTarget(r.s, None), SubSeq(g.srcs, 2, 3),
                                1, <<>>).s),
              g.srcs[4])
    [] g.kind = "setonce" ->
         IF r.v[1] = 0 THEN read(reactiveSetter(r.s, g.wr, 1), g.srcs[2])
         ELSE read(r.s, g.srcs[2])
    [] g.kind = "keepalive" ->
         read(IF Truthy(r.v[1]) /\ r.s.flushing
              THEN queueActivatedComponent(queueActivatedComponent(r.s, 1), 2)
              ELSE r.s,
              g.srcs[2])

\* this.getter.call(vm, vm)
getter(s, w) ==
  getterThen(readAll(s, FirstReads(Options(w).getter), 1, <<>>), Options(w).getter)

\* this.cb.call(vm, value, oldValue)
callback(s, w, value, oldValue) ==
  IF Options(w).cb.kind = "none" THEN Log(s, "cb", w)
  ELSE IF Options(w).cb.kind = "throw" THEN throw(Log(s, "cb", w))
  ELSE IF Options(w).cb.kind = "down"
  THEN (IF Options(w).cb.w <= Len(s.watchers)
        THEN teardown(Log(s, "cb", w), Options(w).cb.w) ELSE Log(s, "cb", w))
  ELSE reactiveSetter(Log(s, "cb", w), Options(w).cb.wr,
                      IF Options(w).cb.kind = "bump"
                      THEN JsAddMod(value, 1) ELSE value)

\* a get that never traverses the value
touchNothing(s, w, value) == s

\* if (this.deep) traverse(value)
touch(s, w, value) == IF Options(w).deep THEN traverse(s, value) ELSE s

\* Watcher.get without a finally clause: a throwing getter leaves the target
\* stack and the new dependency sets as they are
getExitNoFinally(r, w) ==
  IF r.s.exc
  THEN [s |-> IF Options(w).user THEN handleError(r.s, w) ELSE r.s, v |-> Undefined]
  ELSE [s |-> cleanupDeps(popTarget(touch(r.s, w, r.v)), w), v |-> r.v]

\* Watcher.get after the getter has returned or thrown: the catch clause, then
\* popTarget and cleanupDeps of the finally clause
getExit(r, w) ==
  [s |-> cleanupDeps(popTarget(touch(IF r.s.exc /\ Options(w).user
                                     THEN handleError(r.s, w) ELSE r.s,
                                     w, IF r.s.exc THEN Undefined ELSE r.v)), w),
   v |-> IF r.s.exc THEN Undefined ELSE r.v]

\* Watcher.get
get(s, w) ==
  getExit(getter(pushTarget([Log(s, "get", w) EXCEPT
                               !.reads[w] = IF Evaluating(s, w) THEN @ ELSE {}],
                            w), w), w)

setValue(r, w) ==
  [r.s EXCEPT !.watchers[w].value = r.v, !.watchers[w].dirty = FALSE]

\* the try / catch that getAndInvoke puts around the callback of a user
\* watcher; s is the state the callback left
\* a callback invoked without the try / catch
invokeNoCatch(s, w) == s

invoke(s, w) == IF s.exc /\ Options(w).user THEN handleError(s, w) ELSE s

\* getAndInvoke that compares the values only
getAndInvokeStrictOnlyThen(r, w, cb) ==
  IF r.s.exc THEN r.s
  ELSE IF ~StrictEq(r.v, r.s.watchers[w].value) \/ Options(w).deep
  THEN IF cb = "notify"
       THEN notify(setValue(r, w), r.s.watchers[w].dep)
       ELSE invoke(callback(setValue(r, w), w, r.v, r.s.watchers[w].value), w)
  ELSE r.s

getAndInvokeStrictOnly(s, w, cb) == getAndInvokeStrictOnlyThen(get(s, w), w, cb)

\* getAndInvoke that compares the values as reactiveSetter does: NaN over NaN
\* counts as unchanged
getAndInvokeSetterRuleThen(r, w, cb) ==
  IF r.s.exc THEN r.s
  ELSE IF ~(StrictEq(r.v, r.s.watchers[w].value)
              \/ (~StrictEq(r.v, r.v)
                    /\ ~StrictEq(r.s.watchers[w].value, r.s.watchers[w].value)))
            \/ isObject(r.v) \/ Options(w).deep
  THEN IF cb = "notify"
       THEN notify(setValue(r, w), r.s.watchers[w].dep)
       ELSE invoke(callback(setValue(r, w), w, r.v, r.s.watchers[w].value), w)
  ELSE r.s

\* Watcher.getAndInvoke after const value = this.get(): r.v is value
getAndInvokeThen(r, w, cb) ==
  IF r.s.exc THEN r.s
  ELSE IF ~StrictEq(r.v, r.s.watchers[w].value) \/ isObject(r.v) \/ Options(w).deep
  THEN IF cb = "notify"
       THEN notify(setValue(r, w), r.s.watchers[w].dep)
       ELSE invoke(callback(setValue(r, w), w, r.v, r.s.watchers[w].value), w)
  ELSE r.s

\* Watcher.getAndInvoke; cb is "cb" for this.cb and "notify" for
\* () => { this.dep.notify() }
getAndInvoke(s, w, cb) == getAndInvokeThen(get(s, w), w, cb)

\* run that does not test this.active
runInactiveToo(s, w) == getAndInvoke(Log(s, "run", w), w, "cb")

\* Watcher.run
run(s, w) ==
  IF s.watchers[w].active THEN getAndInvoke(Log(s, "run", w), w, "cb") ELSE s

\* update that recomputes a computed node whether or not it has subscribers
updateAlwaysEager(s, w) ==
  IF Options(w).computed
  THEN getAndInvoke(Log(s, "update", w), w, "notify")
  ELSE IF Options(w).sync THEN run(Log(s, "update", w), w)
  ELSE queueWatcher(Log(s, "update", w), w)

\* update that hands sync nodes to the scheduler as well
updateSyncQueued(s, w) ==
  IF Options(w).computed
  THEN IF Len(s.subs[s.watchers[w].dep]) = 0
       THEN [Log(s, "update", w) EXCEPT !.watchers[w].dirty = TRUE]
       ELSE getAndInvoke(Log(s, "update", w), w, "notify")
  ELSE queueWatcher(Log(s, "update", w), w)

\* update that leaves a computed node without subscribers as it is
updateLazyKeepsClean(s, w) ==
  IF Options(w).computed
  THEN IF Len(s.subs[s.watchers[w].dep]) = 0
       THEN Log(s, "update", w)
       ELSE getAndInvoke(Log(s, "update", w), w, "notify")
  ELSE IF Options(w).sync THEN run(Log(s, "update", w), w)
  ELSE queueWatcher(Log(s, "update", w), w)

\* Watcher.update
update(s, w) ==
  IF Options(w).computed
  THEN IF Len(s.subs[s.watchers[w].dep]) = 0
       THEN [Log(s, "update", w) EXCEPT !.watchers[w].dirty = TRUE]
       ELSE getAndInvoke(Log(s, "update", w), w, "notify")
  ELSE IF Options(w).sync THEN run(Log(s, "update", w), w)
  ELSE queueWatcher(Log(s, "update", w), w)

\* Watcher.evaluate after this.get() has returned r.v
evaluateThen(r, w) ==
  IF r.s.exc THEN [s |-> r.s, v |-> Undefined]
  ELSE [s |-> setValue(r, w), v |-> r.v]

\* evaluate that runs the getter whether or not the watcher is dirty
evaluateAlways(s, w) == evaluateThen(get(s, w), w)

\* Watcher.evaluate of a watcher that is not dirty: return this.value; fresh
\* is what the getter would give on the data as they are, kept for the history
\* only
evaluateCached(s, w, fresh) ==
  [s |-> IF fresh # s.watchers[w].value
         THEN [s EXCEPT !.stale = @ \cup {w}] ELSE s,
   v |-> s.watchers[w].value]

\* Watcher.evaluate
evaluate(s, w) ==
  IF s.watchers[w].dirty
  THEN evaluateThen(get(s, w), w)
  ELSE evaluateCached(s, w, getter([s EXCEPT !.target = None], w).v)

\* the end of the Watcher constructor: this.value = this.get()
constructThen(r, w) ==
  IF r.s.exc THEN r.s ELSE [r.s EXCEPT !.watchers[w].value = r.v]

\* -------------------------------- observer/index.js and array.js: mutations
\* childOb = !shallow && observe(newVal) of the key k of object v
setFieldChildOb(o, v, k) == [o.s EXCEPT !.heap[v].f[k].childOb = o.ob]

\* value[key] = newVal: the reactive setter of the key if defineReactive has
\* installed one, a plain assignment that may add the key otherwise
fieldSet(s, v, k, newVal) ==
  IF s.heap[v].f[k].dep = NoDep
  THEN [s EXCEPT !.heap[v].f[k].val = newVal,
                 !.heap[v].own = IF \E i \in 1..Len(@) : @[i] = k THEN @
                                 ELSE Append(@, k)]
  ELSE IF StrictEq(newVal, s.heap[v].f[k].val)
            \/ (~StrictEq(newVal, newVal)
                  /\ ~StrictEq(s.heap[v].f[k].val, s.heap[v].f[k].val))
  THEN s
  ELSE notify(setFieldChildOb(observe(Log([s EXCEPT !.heap[v].f[k].val = newVal],
                                          "set", s.heap[v].f[k].dep), newVal),
                              v, k),
              s.heap[v].f[k].dep)

\* the place of a value in the order of Array.prototype.sort without a compare
\* function: by string, so digits, then "NaN", then "[object Object]";
\* undefined goes last
SortKey(x) ==
  IF isNumber(x) THEN x ELSE IF x = NaN THEN 1000
  ELSE IF x = Undefined THEN 3000 ELSE 2000

RECURSIVE insertByKey(_, _)
insertByKey(sorted, x) ==
  IF sorted = <<>> THEN <<x>>
  ELSE IF SortKey(x) < SortKey(sorted[1]) THEN <<x>> \o sorted
  ELSE <<sorted[1]>> \o insertByKey(Tail(sorted), x)

RECURSIVE sortNative(_)
sortNative(a) ==
  IF a = <<>> THEN <<>>
  ELSE insertByKey(sortNative(SubSeq(a, 1, Len(a) - 1)), a[Len(a)])

\* original.apply(this, args): the array after the native method; the
\* arguments of splice are <<start, deleteCount, item, ...>>
original(a, method, args) ==
  CASE method = "push" -> a \o args
    [] method = "pop" -> SubSeq(a, 1, Len(a) - 1)
    [] method = "shift" -> SubSeq(a, 2, Len(a))
    [] method = "unshift" -> args \o a
    [] method = "splice" ->
         LET start == IF args[1] > Len(a) THEN Len(a) ELSE args[1]
             stop == IF start + args[2] > Len(a) THEN Len(a) ELSE start + args[2]
         IN SubSeq(a, 1, start) \o SubSeq(args, 3, Len(args))
              \o SubSeq(a, stop + 1, Len(a))
    [] method = "sort" -> sortNative(a)
    [] method = "reverse" -> [i \in 1..Len(a) |-> a[Len(a) + 1 - i]]

\* the elements a method inserts, <<>> when inserted stays undefined
inserted(method, args) ==
  IF method \in {"push", "unshift"} THEN args
  ELSE IF method = "splice" THEN SubSeq(args, 3, Len(args)) ELSE <<>>

\* mutator that notifies before it observes the inserted elements
mutatorNotifyFirst(s, v, method, args) ==
  observeArray(notify(Log([s EXCEPT !.heap[v].elems = original(@, method, args)],
                          "mutate", v), s.heap[v].ob),
               inserted(method, args), 1)

\* array.js mutator: the method of arrayMethods called on the wrapped array v
mutator(s, v, method, args) ==
  notify(observeArray(Log([s EXCEPT !.heap[v].elems = original(@, method, args)],
                          "mutate", v),
                      inserted(method, args), 1),
         s.heap[v].ob)

\* array[method](...args): intercepted if the array has an Observer
arrayCall(s, v, method, args) ==
  IF hasOb(s, v) THEN mutator(s, v, method, args)
  ELSE [s EXCEPT !.heap[v].elems = original(@, method, args)]

\* a set that leaves the length of the array as it is
setLengthKeep(a, n) == a

\* target.length = Math.max(target.length, key)
setLength(a, n) ==
  IF n > Len(a) THEN a \o [i \in 1..(n - Len(a)) |-> Undefined] ELSE a

\* set that does not look at ob.vmCount
setAnyCount(s, v, key, x) ==
  IF isArray(v)
  THEN arrayCall([s EXCEPT !.heap[v].elems = setLength(@, key)], v, "splice",
                 <<key, 1, x>>)
  ELSE IF \E i \in 1..Len(s.heap[v].own) : s.heap[v].own[i] = key
  THEN fieldSet(s, v, key, x)
  ELSE IF ~hasOb(s, v) THEN fieldSet(s, v, key, x)
  ELSE notify(Log(defineReactive(s, v, key, x), "define", s.heap[v].ob),
              s.heap[v].ob)

\* set(target, key, val): key is an index if target is an array, one of Keys
\* otherwise
set(s, v, key, x) ==
  IF isArray(v)
  THEN arrayCall([s EXCEPT !.heap[v].elems = setLength(@, key)], v, "splice",
                 <<key, 1, x>>)
  ELSE IF \E i \in 1..Len(s.heap[v].own) : s.heap[v].own[i] = key
  THEN fieldSet(s, v, key, x)
  ELSE IF hasOb(s, v) /\ s.heap[v].vmCount > 0
  THEN (IF ~production THEN Log(s, "warnset", s.heap[v].ob) ELSE s)
  ELSE IF ~hasOb(s, v) THEN fieldSet(s, v, key, x)
  ELSE notify(Log(defineReactive(s, v, key, x), "define", s.heap[v].ob),
              s.heap[v].ob)

\* del that does not look at ob.vmCount
delAnyCount(s, v, key) ==
  IF isArray(v) THEN arrayCall(s, v, "splice", <<key, 1>>)
  ELSE IF ~\E i \in 1..Len(s.heap[v].own) : s.heap[v].own[i] = key THEN s
  ELSE IF ~hasOb(s, v)
  THEN [s EXCEPT !.heap[v].own = SelectSeq(@, LAMBDA k : k # key),
                 !.heap[v].f[key] = NoField]
  ELSE notify([s EXCEPT !.heap[v].own = SelectSeq(@, LAMBDA k : k # key),
                        !.heap[v].f[key] = NoField],
              s.heap[v].ob)

\* del(target, key): key is an index if target is an array, one of Keys
\* otherwise; delete target[key] takes the key and its accessor away
del(s, v, key) ==
  IF isArray(v) THEN arrayCall(s, v, "splice", <<key, 1>>)
  ELSE IF hasOb(s, v) /\ s.heap[v].vmCount > 0
  THEN (IF ~production THEN Log(s, "warndel", s.heap[v].ob) ELSE s)
  ELSE IF ~\E i \in 1..Len(s.heap[v].own) : s.heap[v].own[i] = key THEN s
  ELSE IF ~hasOb(s, v)
  THEN [s EXCEPT !.heap[v].own = SelectSeq(@, LAMBDA k : k # key),
                 !.heap[v].f[key] = NoField]
  ELSE notify([s EXCEPT !.heap[v].own = SelectSeq(@, LAMBDA k : k # key),
                        !.heap[v].f[key] = NoField],
              s.heap[v].ob)

\* ------------------------------------------------------------- scheduler.js
RECURSIVE insertSorted(_, _)
insertSorted(sorted, x) ==
  IF sorted = <<>> THEN <<x>>
  ELSE IF x < sorted[1] THEN <<x>> \o sorted
  ELSE <<sorted[1]>> \o insertSorted(Tail(sorted), x)

\* a sort that leaves the queue as it is
sortByIdNone(q) == q

RECURSIVE sortById(_)
\* queue.sort((a, b) => a.id - b.id): a stable sort by watcher id
sortById(q) ==
  IF q = <<>> THEN <<>>
  ELSE insertSorted(sortById(SubSeq(q, 1, Len(q) - 1)), q[Len(q)])

\* resetSchedulerState that leaves the queue as it is
resetSchedulerStateKeepQueue(s) ==
  [s EXCEPT !.index = 0, !.activatedChildren = <<>>,
            !.has = [w \in WatcherIds |-> FALSE],
            !.circular = IF ~production THEN [w \in WatcherIds |-> 0] ELSE @,
            !.waiting = FALSE, !.flushing = FALSE]

resetSchedulerState(s) ==
  [s EXCEPT !.index = 0, !.queue = <<>>, !.activatedChildren = <<>>,
            !.has = [w \in WatcherIds |-> FALSE],
            !.circular = IF ~production THEN [w \in WatcherIds |-> 0] ELSE @,
            !.waiting = FALSE, !.flushing = FALSE]

\* callHook(vm, hook): the hook of the component as Hooks gives it; name is
\* "activated" or "updated", n the child or the watcher it is called for
callHook(s, name, n, hook) ==
  IF hook.kind = "copy"
  THEN reactiveSetter(Log(s, name, n), hook.wr, s.val[hook.src])
  ELSE Log(s, name, n)

RECURSIVE callActivatedHooks(_, _, _)
\* callActivatedHooks(queue), from the i-th component on:
\* activateChildComponent(queue[i], true) calls the activated hook
callActivatedHooks(s, q, i) ==
  IF i > Len(q) THEN s
  ELSE callActivatedHooks(callHook(s, "activated", q[i],
                                   Hooks(scenario).activated), q, i + 1)

RECURSIVE callUpdatedHooks(_, _, _)
\* callUpdatedHooks(queue): while (i--), the updated hook for vm._watcher
callUpdatedHooks(s, q, i) ==
  IF i = 0 THEN s
  ELSE callUpdatedHooks(IF q[i] = Hooks(scenario).watcher
                        THEN callHook(s, "updated", q[i], Hooks(scenario).updated)
                        ELSE s,
                        q, i - 1)

\* the end of flushSchedulerQueue with the hooks called before the reset
flushEndResetLast(s) ==
  resetSchedulerState(callUpdatedHooks(callActivatedHooks(s, s.activatedChildren, 1),
                                       s.queue, Len(s.queue)))

\* the end of flushSchedulerQueue: the copies of the two queues, the reset,
\* then the hooks
flushEnd(s) ==
  callUpdatedHooks(callActivatedHooks(resetSchedulerState(s),
                                      s.activatedChildren, 1),
                   s.queue, Len(s.queue))

\* the check for circular updates that follows watcher.run(); s is the state
\* run() left, counted is circular[id] after this iteration
circularCheck(s, w, counted, limit) ==
  IF s.exc THEN [s |-> s, brk |-> FALSE]
  ELSE IF ~production /\ s.has[w]
  THEN IF counted > limit
       THEN [s |-> Log([s EXCEPT !.circular[w] = counted], "warn", w), brk |-> TRUE]
       ELSE [s |-> [s EXCEPT !.circular[w] = counted, !.index = @ + 1],
             brk |-> FALSE]
  ELSE [s |-> [s EXCEPT !.index = @ + 1], brk |-> FALSE]

\* if (watcher.before) watcher.before(), at the head of the loop body
before(s, w) ==
  IF Options(w).before.kind = "copy"
  THEN reactiveSetter(s, Options(w).before.wr, s.val[Options(w).before.src])
  ELSE s

\* flushIteration that stops when the counter reaches MAX_UPDATE_COUNT
flushIterationOffByOne(s) ==
  circularCheck(run([before(s, s.queue[s.index + 1])
                       EXCEPT !.has[s.queue[s.index + 1]] = FALSE],
                    s.queue[s.index + 1]),
                s.queue[s.index + 1], s.circular[s.queue[s.index + 1]] + 1,
                MAX_UPDATE_COUNT - 1)

\* flushIteration without has[id] = null before watcher.run()
flushIterationKeepHas(s) ==
  circularCheck(run(before(s, s.queue[s.index + 1]), s.queue[s.index + 1]),
                s.queue[s.index + 1], s.circular[s.queue[s.index + 1]] + 1,
                MAX_UPDATE_COUNT)

\* one iteration of the for loop of flushSchedulerQueue, up to the break or
\* the index++
flushIteration(s) ==
  circularCheck(run([before(s, s.queue[s.index + 1])
                       EXCEPT !.has[s.queue[s.index + 1]] = FALSE],
                    s.queue[s.index + 1]),
                s.queue[s.index + 1], s.circular[s.queue[s.index + 1]] + 1,
                MAX_UPDATE_COUNT)

\* -------------------------------------------------------------------- state
InitVal == [p \in PropSet |-> IF p = "o" THEN Frozen1 ELSE 0]

\* the data as data() returns it, o being the value of its key o, with the
\* Observer of the data (Dep 0) and the Deps of its keys (1..4) created
RawData(o) ==
  [val |-> [InitVal EXCEPT !.o = o], childOb |-> [p \in PropSet |-> NoDep],
   heap |-> RawHeap, shouldObserve |-> TRUE, observers |-> [r \in Objs |-> 0],
   subs |-> [d \in 0..Len(Props) |-> <<>>], depUid |-> Len(Props) + 1,
   trace |-> <<>>]

\* observe(data, true) of initData, at the last step of its walk:
\* childOb = observe(val) for the key o
InitData(o) == setChildOb(observe(RawData(o), o), "o")

\* the value data() gives to the key o
InitObj(sc) ==
  IF sc \in {"deep", "suspend"} THEN O1 ELSE IF sc = "array" THEN A1 ELSE Frozen1

InitWith(scenarios, builds) ==
  /\ scenario \in scenarios
  /\ production \in builds
  /\ \E o \in {InitObj(scenario)} :
        /\ val = InitData(o).val
        /\ childOb = InitData(o).childOb
        /\ heap = InitData(o).heap
        /\ observers = InitData(o).observers
        /\ subs = InitData(o).subs
        /\ depUid = InitData(o).depUid
  /\ shouldObserve = TRUE
  /\ target = None
  /\ targetStack = <<>>
  /\ watchers = <<>>
  /\ queue = <<>>
  /\ has = [w \in WatcherIds |-> FALSE]
  /\ circular = [w \in WatcherIds |-> 0]
  /\ waiting = FALSE
  /\ flushing = FALSE
  /\ index = 0
  /\ activatedChildren = <<>>
  /\ callbacks = 0
  /\ pc = "idle"
  /\ trace = <<>>
  /\ last = [op |-> "init", p |-> "", v |-> 0, w |-> 0]
  /\ reads = [w \in WatcherIds |-> {}]
  /\ runLog = <<>>
  /\ flushWrote = FALSE
  /\ flushEnq = FALSE
  /\ due = {}
  /\ twice = {}
  /\ warned = FALSE
  /\ enqOrder = <<>>
  /\ torn = {}
  /\ escaped = FALSE
  /\ stale = {}
  /\ mark = {}

Init == InitWith(Scenarios, BOOLEAN)

Did(tr, e) == \E i \in 1..Len(tr) : tr[i][1] = e
DidTo(tr, e, n) == \E i \in 1..Len(tr) : tr[i] = <<e, n>>

\* the program state after an action is the record s
Commit(s) ==
  /\ val' = s.val
  /\ childOb' = s.childOb
  /\ heap' = s.heap
  /\ shouldObserve' = s.shouldObserve
  /\ observers' = s.observers
  /\ subs' = s.subs
  /\ depUid' = s.depUid
  /\ target' = s.target
  /\ targetStack' = s.targetStack
  /\ watchers' = s.watchers
  /\ queue' = s.queue
  /\ has' = s.has
  /\ circular' = s.circular
  /\ waiting' = s.waiting
  /\ flushing' = s.flushing
  /\ index' = s.index
  /\ activatedChildren' = s.activatedChildren
  /\ callbacks' = s.callbacks
  /\ trace' = s.trace
  /\ reads' = s.reads
  /\ torn' = torn \cup {w \in WatcherIds : DidTo(s.trace, "teardown", w)}
  /\ escaped' = s.exc
  /\ stale' = s.stale

Count(seq, x) == Cardinality({i \in 1..Len(seq) : seq[i] = x})

\* the history of a flush is kept until the next operation outside of it
ClearFlushHistory ==
  /\ runLog' = <<>>
  /\ flushWrote' = FALSE
  /\ flushEnq' = FALSE
  /\ warned' = FALSE
  /\ enqOrder' = <<>>

\* new Watcher(vm, expOrFn, cb, options): the next watcher of the scenario
NewWatcher ==
  /\ pc = "idle"
  /\ Len(watchers) < Len(Config(scenario))
  /\ LET id == Len(watchers) + 1
         o == Config(scenario)[id]
         w0 == [value |-> Undefined, dirty |-> o.computed, active |-> TRUE,
                deps |-> <<>>, newDeps |-> <<>>, depIds |-> {}, newDepIds |-> {},
                dep |-> IF o.computed THEN depUid ELSE NoDep]
         s0 == [Cur EXCEPT !.watchers = Append(@, w0)]
     IN /\ Commit(IF o.computed
                  THEN [s0 EXCEPT !.depUid = @ + 1,
                                  !.subs = [d \in 0..depUid |->
                                              IF d < depUid THEN subs[d] ELSE <<>>]]
                  ELSE constructThen(get(s0, id), id))
        /\ last' = [op |-> "new", p |-> "", v |-> 0, w |-> id]
  /\ ClearFlushHistory
  /\ UNCHANGED <<scenario, production, pc, due, twice, mark>>

\* the deferred nodes that read p in their last evaluation
Readers(p) ==
  {w \in 1..Len(watchers) :
     /\ ~Options(w).computed /\ ~Options(w).sync
     /\ watchers[w].active
     /\ PropDep(p) \in reads[w]}

\* the nodes that update() hands to the scheduler
Deferred ==
  {w \in 1..Len(watchers) : ~Options(w).computed /\ ~Options(w).sync}

\* vm[p] = v, executed by code outside of any watcher
Write(p, v) ==
  /\ pc = "idle"
  /\ v \in Inputs(scenario, p)
  /\ Commit(reactiveSetter(Cur, p, v))
  /\ last' = [op |-> "write", p |-> p, v |-> v, w |-> 0]
  /\ due' = IF val'[p] # val[p] THEN due \cup Readers(p) ELSE due
  /\ twice' = twice \cup {w \in Deferred : Count(trace', <<"update", w>>) >= 2}
  /\ ClearFlushHistory
  /\ UNCHANGED <<scenario, production, pc, mark>>

\* vm[key] read by code outside of any watcher, key a computed property
ReadComputed(w) ==
  /\ pc = "idle"
  /\ w \in 1..Len(watchers)
  /\ Options(w).computed
  /\ \E r \in {computedGetter(Cur, w)} :
        /\ Commit(r.s)
        /\ last' = [op |-> "read", p |-> "", v |-> r.v, w |-> w]
  /\ ClearFlushHistory
  /\ UNCHANGED <<scenario, production, pc, due, twice, mark>>

\* the nextTick callback: flushSchedulerQueue up to the for loop
FlushBegin ==
  /\ pc = "idle"
  /\ callbacks > 0
  /\ LET s == [Cur EXCEPT !.callbacks = @ - 1, !.flushing = TRUE,
                          !.queue = sortById(@), !.index = 0]
     IN /\ Commit(s)
        /\ pc' = IF s.index < Len(s.queue) THEN "loop" ELSE "post"
  /\ last' = [op |-> "flushBegin", p |-> "", v |-> 0, w |-> 0]
  /\ runLog' = <<>>
  /\ flushWrote' = FALSE
  /\ flushEnq' = FALSE
  /\ warned' = FALSE
  /\ enqOrder' = queue
  /\ mark' = {}
  /\ UNCHANGED <<scenario, production, due, twice>>

\* everything the rest of the flush loop depends on: the loop is deterministic,
\* so it does the same from two equal configurations
Configuration ==
  [val |-> val, subs |-> subs, watchers |-> watchers, has |-> has,
   circular |-> circular, rest |-> SubSeq(queue, index + 1, Len(queue))]

\* the numbers of completed iterations after which the configuration is kept
Checkpoints == {0, 1, 2, 4, 8, 16, 32, 64}

\* one iteration of the for loop and the test that ends or continues it
FlushStep ==
  /\ pc = "loop"
  /\ Len(queue) < MaxQueue
  /\ \E r \in {flushIteration(Cur)} :
        /\ Commit(r.s)
        /\ pc' = IF r.s.exc THEN "idle"
                 ELSE IF r.brk \/ ~(r.s.index < Len(r.s.queue)) THEN "post"
                 ELSE "loop"
        /\ warned' = r.brk
        /\ flushWrote' = (flushWrote \/ Did(r.s.trace, "set"))
        /\ flushEnq' = (flushEnq \/ Did(r.s.trace, "queue"))
  /\ last' = [op |-> "flushStep", p |-> "", v |-> 0, w |-> queue[index + 1]]
  /\ runLog' = Append(runLog, queue[index + 1])
  /\ mark' = IF Len(runLog) \in Checkpoints THEN {Configuration} ELSE mark
  /\ UNCHANGED <<scenario, production, due, twice, enqOrder>>

\* the rest of flushSchedulerQueue, after the for loop
FlushEnd ==
  /\ pc = "post"
  /\ Commit(flushEnd(Cur))
  /\ pc' = "idle"
  /\ last' = [op |-> "flushEnd", p |-> "", v |-> 0, w |-> 0]
  /\ due' = {}
  /\ twice' = {}
  /\ mark' = {}
  /\ UNCHANGED <<scenario, production, runLog, flushWrote, flushEnq, warned, enqOrder>>

\* watcher.teardown() called by code outside of any watcher (the function
\* vm.$watch returns)
Teardown(w) ==
  /\ pc = "idle"
  /\ w \in 1..Len(watchers) \cap Unwatched(scenario)
  /\ Commit(teardown(Cur, w))
  /\ last' = [op |-> "teardown", p |-> "", v |-> 0, w |-> w]
  /\ ClearFlushHistory
  /\ UNCHANGED <<scenario, production, pc, due, twice, mark>>

Next ==
  \/ NewWatcher
  \/ \E p \in PropSet : \E v \in Inputs(scenario, p) : Write(p, v)
  \/ \E w \in WatcherIds : ReadComputed(w)
  \/ FlushBegin
  \/ FlushStep
  \/ FlushEnd

Spec == Init /\ [][Next]_vars

\* value[key] = x, executed by code outside of any watcher
FieldWrite(v, k, x) ==
  /\ pc = "idle"
  /\ <<v, k, x>> \in FieldInputs(scenario)
  /\ Commit(fieldSet(Cur, v, k, x))
  /\ last' = [op |-> "field", p |-> k, v |-> x, w |-> v]
  /\ ClearFlushHistory
  /\ UNCHANGED <<scenario, production, pc, due, twice, mark>>

\* array[method](...args) with <<method, args>> = ArrayCalls[i], executed by
\* code outside of any watcher
ArrayCall(v, i) ==
  /\ pc = "idle"
  /\ v \in ArrayInputs(scenario)
  /\ i \in 1..Len(ArrayCalls)
  /\ Len(original(heap[v].elems, ArrayCalls[i][1], ArrayCalls[i][2])) <= MaxLen
  /\ Commit(arrayCall(Cur, v, ArrayCalls[i][1], ArrayCalls[i][2]))
  /\ last' = [op |-> "array", p |-> ArrayCalls[i][1], v |-> i, w |-> v]
  /\ ClearFlushHistory
  /\ UNCHANGED <<scenario, production, pc, due, twice, mark>>

\* Vue.set(target, key, x), executed by code outside of any watcher
SetCall(v, key, x) ==
  /\ pc = "idle"
  /\ <<v, key, x>> \in SetInputs(scenario)
  /\ Commit(set(Cur, v, key, x))
  /\ last' = [op |-> "set", p |-> IF isArray(v) THEN "" ELSE key,
              v |-> IF isArray(v) THEN key ELSE x, w |-> v]
  /\ ClearFlushHistory
  /\ UNCHANGED <<scenario, production, pc, due, twice, mark>>

\* Vue.delete(target, key), executed by code outside of any watcher
DelCall(v, key) ==
  /\ pc = "idle"
  /\ <<v, key>> \in DelInputs(scenario)
  /\ Commit(del(Cur, v, key))
  /\ last' = [op |-> "del", p |-> IF isArray(v) THEN "" ELSE key,
              v |-> IF isArray(v) THEN key ELSE 0, w |-> v]
  /\ ClearFlushHistory
  /\ UNCHANGED <<scenario, production, pc, due, twice, mark>>

\* initData of another vm whose data() returns the object v: observe(data, true)
NewVm(v) ==
  /\ pc = "idle"
  /\ v \in VmInputs(scenario)
  /\ heap[v].vmCount = 0
  /\ Commit(observeRootData(Cur, v))
  /\ last' = [op |-> "vm", p |-> "", v |-> 0, w |-> v]
  /\ ClearFlushHistory
  /\ UNCHANGED <<scenario, production, pc, due, twice, mark>>

\* toggleObserving(value)
ToggleObserving(value) ==
  /\ pc = "idle"
  /\ value \in ToggleInputs(scenario)
  /\ Commit([Cur EXCEPT !.shouldObserve = value])
  /\ last' = [op |-> "toggle", p |-> "", v |-> 0, w |-> 0]
  /\ ClearFlushHistory
  /\ UNCHANGED <<scenario, production, pc, due, twice, mark>>

\* the vms of ObsScenarios, whose data holds objects and arrays
InitObs == InitWith(ObsScenarios, {FALSE})

NextObs ==
  \/ NewWatcher
  \/ \E p \in PropSet : \E v \in Inputs(scenario, p) : Write(p, v)
  \/ \E t \in FieldInputs(scenario) : FieldWrite(t[1], t[2], t[3])
  \/ \E v \in Objs : \E i \in 1..Len(ArrayCalls) : ArrayCall(v, i)
  \/ \E t \in SetInputs(scenario) : SetCall(t[1], t[2], t[3])
  \/ \E t \in DelInputs(scenario) : DelCall(t[1], t[2])
  \/ \E v \in Objs : NewVm(v)
  \/ \E value \in BOOLEAN : ToggleObserving(value)
  \/ FlushBegin
  \/ FlushStep
  \/ FlushEnd

SpecObs == InitObs /\ [][NextObs]_vars

\* the vms of LifeScenarios, whose watchers are also torn down from outside;
\* none of them depends on the build
InitLife == InitWith(LifeScenarios, {FALSE})

NextLife ==
  \/ NewWatcher
  \/ \E p \in PropSet : \E v \in Inputs(scenario, p) : Write(p, v)
  \/ \E w \in WatcherIds : ReadComputed(w)
  \/ \E w \in WatcherIds : Teardown(w)
  \/ FlushBegin
  \/ FlushStep
  \/ FlushEnd

SpecLife == InitLife /\ [][NextLife]_vars

TypeOK ==
  /\ pc \in {"idle", "loop", "post"}
  /\ callbacks \in 0..1
  /\ target = None /\ targetStack = <<>>

\* ================================================================== claims

UpdatesOf(tr, w) == Count(tr, <<"update", w>>)

\* C1: a deferred node that had read property P when P was given a different
\* value is run exactly once by the next flush, provided that flush passes
\* without any further write: when the for loop of the flush is over, each such
\* node occurs exactly once among the nodes the flush has run.
C1_RunExactlyOnce ==
  (pc = "post" /\ ~flushWrote) => \A w \in due : Count(runLog, w) = 1

C1_Witness ==
  /\ pc = "post" /\ ~flushWrote
  /\ \E w \in due : Count(runLog, w) = 1 /\ Len(runLog) >= 2

\* C2: a write of a value identical to the stored one (equal, NaN over NaN
\* included), to a property of the vm or to a key of an object of the heap,
\* changes no program state: the values, the childOb of every property, the
\* objects and their Observers, subscriber lists, watchers, queue, presence
\* map, flags and pending flush callbacks stay as they are, and no set, update,
\* enqueue or nextTick happens.
C2_IdenticalWriteNoOp ==
  [][((last'.op = "write" /\ last'.v = val[last'.p])
        \/ (last'.op = "field" /\ last'.v = heap[last'.w].f[last'.p].val))
       => /\ UNCHANGED <<val, childOb, heap, shouldObserve, observers, subs,
                         depUid, target, targetStack, watchers, reads, queue,
                         has, circular, waiting, flushing, index,
                         activatedChildren, callbacks>>
          /\ trace' = <<>>]_vars

\* the array that o holds, wrapped and read by two watchers, is assigned to o
\* again: its Observer is still the childOb of o and nothing has happened
C2_Witness ==
  /\ scenario = "array" /\ last.op = "write" /\ last.p = "o" /\ last.v = A1
  /\ val["o"] = A1 /\ trace = <<>>
  /\ heap[A1].ob # NoDep /\ childOb["o"] = heap[A1].ob
  /\ Len(subs[PropDep("o")]) = 2 /\ Len(subs[childOb["o"]]) = 2
  /\ observers[A1] = 1

\* C3: at most one flushSchedulerQueue callback is pending or running: nextTick
\* holds at most one such callback, none while the flush loop runs, the waiting
\* flag is set exactly while a flush is pending or running, one action issues
\* nextTick at most once, and a non-empty queue outside a flush always has its
\* flush scheduled.
C3_SingleFlush ==
  /\ callbacks + (IF flushing THEN 1 ELSE 0) <= 1
  /\ waiting <=> (callbacks = 1 \/ flushing)
  /\ flushing <=> pc # "idle"
  /\ Count(trace, <<"nextTick", 0>>) <= 1
  /\ (~flushing /\ queue # <<>>) => callbacks = 1

C3_Witness ==
  /\ callbacks = 1 /\ ~flushing /\ Len(queue) >= 2
  /\ last.op = "write" /\ Did(trace, "queue") /\ ~Did(trace, "nextTick")

\* C4: in a flush during which no node is enqueued, the nodes are run in
\* strictly ascending id order, and they are the nodes that were enqueued,
\* whatever the order of their enqueueing.
C4_AscendingOrder ==
  ~flushEnq =>
     /\ \A i, j \in 1..Len(runLog) : i < j => runLog[i] < runLog[j]
     /\ pc = "post" => \A w \in WatcherIds : Count(runLog, w) = Count(enqOrder, w)

C4_Witness ==
  /\ pc = "post" /\ ~flushEnq
  /\ Len(runLog) >= 2
  /\ enqOrder # runLog

\* C5: a deferred node that one write calls update() on more than once (as the
\* bottom of a diamond is, once per changed computed node) is in the queue once,
\* and the flush runs it exactly once.
C5_DiamondOnce ==
  \A c \in twice :
     /\ pc = "idle" => Count(queue, c) = 1
     /\ (pc = "post" /\ ~flushEnq) => Count(runLog, c) = 1

C5_Witness ==
  /\ scenario = "diamond" /\ 3 \in twice
  /\ pc = "post" /\ Count(runLog, 3) = 1

\* C6: every flush terminates, here in the build that has the circular-update
\* guard.  The flush loop is deterministic, so a loop that terminates is never
\* twice in the same configuration (data, subscriptions, watchers, presence
\* map, counters, rest of the queue): it is never again in the configuration
\* it was in at a checkpoint.
C6_FlushTerminates ==
  (~production /\ pc = "loop") => Configuration \notin mark

\* a user watcher whose callback unconditionally writes a new value to a
\* property its own getter reads
SelfWriters ==
  {w \in 1..Len(watchers) :
     /\ Options(w).user /\ Options(w).cb.kind = "bump"
     /\ Prop(Options(w).cb.wr) \in {Options(w).getter.srcs[i] :
                                      i \in 1..Len(Options(w).getter.srcs)}}

CircularGuard ==
  /\ \A w \in SelfWriters : Count(runLog, w) <= MAX_UPDATE_COUNT + 1
  /\ \A w \in WatcherIds : circular[w] > MAX_UPDATE_COUNT => warned /\ pc = "post"
  /\ (warned /\ pc = "post") =>
        \E w \in WatcherIds :
           /\ DidTo(trace, "warn", w)
           /\ circular[w] = MAX_UPDATE_COUNT + 1
           /\ Count(runLog, w) = MAX_UPDATE_COUNT + 1
  /\ (pc = "idle" /\ last.op = "flushEnd")
        => queue = <<>> /\ ~waiting /\ ~flushing /\ callbacks = 0
  /\ (pc = "idle" /\ last.op = "write" /\ Did(trace, "queue")) => callbacks = 1

\* C7 as stated: in any build, the self-writing watcher is run at most
\* MAX_UPDATE_COUNT + 1 times in a flush, the warning stops the loop and the
\* scheduler is reset to idle.
C7_Original == CircularGuard

\* C7 amended: the same, in a build whose NODE_ENV is not 'production'.
C7_CircularGuardDev == ~production => CircularGuard

C7_Witness ==
  /\ ~production /\ pc = "idle" /\ last.op = "flushEnd" /\ warned
  /\ \E w \in SelfWriters : Count(runLog, w) = MAX_UPDATE_COUNT + 1
  /\ queue = <<>> /\ ~waiting

\* C8: a computed node without subscribers does not run its getter unless its
\* value is read: an update() only marks it dirty, and a read of a dirty
\* computed node runs the getter and leaves it clean.
C8_ComputedLazy ==
  [][\A c \in 1..Len(watchers) :
        Options(c).computed =>
          /\ (subs[watchers[c].dep] = <<>> /\ ~DidTo(trace', "read", c))
                => /\ ~DidTo(trace', "get", c)
                   /\ DidTo(trace', "update", c) => watchers'[c].dirty
          /\ (last'.op = "read" /\ last'.w = c)
                => /\ DidTo(trace', "get", c) <=> watchers[c].dirty
                   /\ ~watchers'[c].dirty]_vars

C8_Witness ==
  /\ last.op = "write"
  /\ \E c \in 1..Len(watchers) :
        /\ Options(c).computed /\ subs[watchers[c].dep] = <<>>
        /\ DidTo(trace, "update", c) /\ ~DidTo(trace, "get", c)
        /\ watchers[c].dirty /\ watchers[c].value # Undefined

\* the computed nodes a write calls update() on exactly once, with a subscriber
ActiveUpdated(c) ==
  /\ c \in 1..Len(watchers) /\ Options(c).computed
  /\ last'.op = "write"
  /\ subs[watchers[c].dep] # <<>>
  /\ UpdatesOf(trace', c) = 1

\* C9 as stated: a computed node with a subscriber re-runs its getter on each
\* invalidating write and notifies its own Dep if and only if the result
\* differs from the cached one.
C9_Original ==
  [][\A c \in WatcherIds :
        ActiveUpdated(c) =>
          /\ DidTo(trace', "get", c)
          /\ DidTo(trace', "notify", watchers[c].dep)
               <=> ~StrictEq(watchers'[c].value, watchers[c].value)]_vars

\* C9 amended: it notifies its own Dep if and only if the result is not
\* strictly equal to the cached one (NaN is never strictly equal) or is an
\* object.
C9_NotifyIfChangedOrObject ==
  [][\A c \in WatcherIds :
        ActiveUpdated(c) =>
          /\ DidTo(trace', "get", c)
          /\ DidTo(trace', "notify", watchers[c].dep)
               <=> (~StrictEq(watchers'[c].value, watchers[c].value)
                      \/ isObject(watchers'[c].value))]_vars

C9_Witness ==
  /\ last.op = "write"
  /\ \E c \in 1..Len(watchers) :
        /\ Options(c).computed /\ subs[watchers[c].dep] # <<>>
        /\ DidTo(trace, "get", c)
        /\ ~DidTo(trace, "notify", watchers[c].dep)
        /\ ~Did(trace, "queue")

\* C10: the queue never holds a computed or a sync node; a sync node is run,
\* and its callback called, inside the write that triggers it, so that outside
\* of a write its value is the one its getter returns on the current state.
C10_NeverDeferred ==
  /\ \A i \in 1..Len(queue) :
        ~Options(queue[i]).computed /\ ~Options(queue[i]).sync
  /\ \A w \in 1..Len(watchers) :
        Options(w).sync =>
          /\ watchers[w].value = getter(Cur, w).v
          /\ DidTo(trace, "update", w) => DidTo(trace, "run", w)

C10_Witness ==
  /\ last.op = "write"
  /\ \E w \in 1..Len(watchers) :
        /\ Options(w).sync
        /\ DidTo(trace, "update", w) /\ DidTo(trace, "cb", w)
        /\ Did(trace, "queue")

\* C11: once teardown() of a watcher has been called, the watcher is inactive
\* and in no Dep's subs, and stays so: whatever is done later, no Dep holds it
\* and update() is not called on it.
C11_TornDownTerminal ==
  [][\A w \in torn' :
        /\ ~watchers'[w].active
        /\ {d \in DOMAIN subs' : Count(subs'[d], w) > 0} = {}
        /\ (w \in torn => ~DidTo(trace', "update", w))]_vars

\* C12: the flush loop reaching a node that has been torn down since it was
\* enqueued does nothing but step over it: no getter, no callback, no change of
\* data, watchers or subscriptions; the loop goes on with the next node of the
\* queue, and ends (unless the circular guard stops it) only when every node of
\* the queue has been reached.
C12_TornDownSkipped ==
  [][/\ (last'.op = "flushStep" /\ ~watchers[last'.w].active)
          => /\ trace' = <<>>
             /\ UNCHANGED <<val, subs, watchers, queue>>
             /\ index' = index + 1
             /\ pc' = IF index' < Len(queue) THEN "loop" ELSE "post"
      /\ ((pc' = "post" /\ ~warned') => index' = Len(queue'))]_vars

C12_Witness ==
  /\ last.op = "flushStep" /\ watchers[last.w].active
  /\ DidTo(trace, "get", last.w)
  /\ \E i \in 1..(Len(runLog) - 1) :
        /\ runLog[i] \in torn /\ ~watchers[runLog[i]].active
        /\ runLog[i] < last.w

\* C13: when the callback of a user watcher throws in a flush, the error is
\* reported and goes no further: the watcher has its new value, is active and
\* is in the subs of every Dep it read, and the loop goes on with the next node
\* of the queue.
C13_CallbackErrorCaught ==
  [][\A w \in 1..Len(watchers) :
        (/\ last'.op = "flushStep" /\ last'.w = w
         /\ Options(w).user /\ Options(w).cb.kind = "throw"
         /\ DidTo(trace', "cb", w))
        => /\ DidTo(trace', "throw", 0) /\ DidTo(trace', "error", w)
           /\ ~escaped'
           /\ watchers'[w].active
           /\ watchers'[w].value = val'[Options(w).getter.srcs[1].p]
           /\ watchers'[w].value # watchers[w].value
           /\ {d \in DOMAIN subs' : Count(subs'[d], w) > 0} = reads'[w]
           /\ reads'[w] # {}
           /\ index' = index + 1
           /\ pc' = IF index' < Len(queue') THEN "loop" ELSE "post"]_vars

C13_Witness ==
  /\ last.op = "flushStep" /\ DidTo(trace, "get", last.w) /\ ~escaped
  /\ \E i \in 1..(Len(runLog) - 1) :
        /\ Options(runLog[i]).cb.kind = "throw"
        /\ watchers[runLog[i]].value = val["a"]
        /\ runLog[i] < last.w

\* C14: after the getter of a non-user node has thrown in a flush, the
\* scheduler is usable again: a later write that calls update() on an active
\* deferred node leaves the node in the queue with a flush scheduled to run it.
C14_UsableAfterGetterError ==
  (pc = "idle" /\ last.op = "write") =>
     \A w \in Deferred :
        (DidTo(trace, "update", w) /\ watchers[w].active)
          => Count(queue, w) > 0 /\ callbacks = 1 /\ ~flushing

\* C15: observe(v) on a value that already carries an Observer returns that
\* Observer and creates none, also while shouldObserve is false: no container
\* ever gets a second Observer, a container has an __ob__ exactly if one
\* Observer has been constructed for it, and two containers never share one.
C15_OneObserver ==
  \A r \in Objs :
    /\ observers[r] <= 1
    /\ (heap[r].ob # NoDep) = (observers[r] = 1)
    /\ \A r2 \in Objs : (hasOb(Cur, r) /\ heap[r2].ob = heap[r].ob) => r2 = r
    /\ hasOb(Cur, r) =>
         \A on \in BOOLEAN :
           LET s == [Cur EXCEPT !.shouldObserve = on]
           IN observe(s, r) = [s |-> s, ob |-> heap[r].ob]

\* observe(data, true) of an object that already has its Observer, called
\* while observation is suspended: the existing Observer got the vmCount
C15_Witness ==
  /\ last.op = "vm" /\ ~shouldObserve
  /\ observers[O1] = 1 /\ heap[O1].ob # NoDep /\ heap[O1].vmCount = 1
  /\ observers[O3] = 0

\* C16: a call of an intercepted method on an array that has an Observer first
\* does the native mutation, then observes the inserted elements, then calls
\* notify on the Dep of the array's Observer exactly once: every watcher
\* subscribed to that Dep gets update, and a watcher run by the notification
\* reads the mutated array, whose new elements have their Observer by then.
C16_MutateWrapNotify ==
  [][(last'.op = "array" /\ heap[last'.w].ob # NoDep) =>
       LET v == last'.w
           method == ArrayCalls[last'.v][1]
           args == ArrayCalls[last'.v][2]
           ob == heap[v].ob
       IN /\ heap'[v].elems = original(heap[v].elems, method, args)
          /\ trace'[1] = <<"mutate", v>>
          /\ Count(trace', <<"notify", ob>>) = 1
          /\ \A i, j \in 1..Len(trace') :
               (trace'[i][1] = "observer" /\ trace'[j][1] \in {"notify", "update"})
                 => i < j
          /\ \A i \in 1..Len(inserted(method, args)) :
               (inserted(method, args)[i] \in Objs /\ shouldObserve)
                 => heap'[inserted(method, args)[i]].ob # NoDep
          /\ \A w \in 1..Len(watchers) :
               Count(subs[ob], w) > 0 =>
                 /\ DidTo(trace', "update", w)
                 /\ (Options(w).sync /\ watchers[w].active)
                      => watchers'[w].value = Len(heap'[v].elems)]_vars

\* push of an object not observed before onto the observed array that both
\* watchers have read: the sync watcher has the new length, the render watcher
\* is queued
C16_Witness ==
  /\ last.op = "array" /\ last.p = "push"
  /\ heap[A1].elems = <<1, 0, O3>>
  /\ trace[1] = <<"mutate", A1>> /\ trace[2] = <<"observer", O3>>
  /\ trace[3] = <<"notify", heap[A1].ob>>
  /\ DidTo(trace, "update", 1) /\ DidTo(trace, "queue", 2)
  /\ watchers[1].value = 3

\* C17 as stated: set with a key the observed plain object does not have
\* installs a reactive property holding the value and notifies the Dep of the
\* object's Observer exactly once, whatever the Observer's vmCount is.
C17_Original ==
  [][(/\ last'.op = "set" /\ ~isArray(last'.w) /\ heap[last'.w].ob # NoDep
      /\ \A i \in 1..Len(heap[last'.w].own) : heap[last'.w].own[i] # last'.p) =>
       /\ heap'[last'.w].f[last'.p].val = last'.v
       /\ heap'[last'.w].f[last'.p].dep = depUid
       /\ Count(trace', <<"notify", heap[last'.w].ob>>) = 1]_vars

\* C17, amended: set with a key the observed plain object does not have
\* installs a reactive property holding the value and notifies the Dep of the
\* object's Observer exactly once, updating each of its subscribers, if the
\* Observer's vmCount is zero; if vmCount is not zero, set installs nothing
\* and notifies nothing, and only warns in a build that is not production.
C17_SetNewKey ==
  [][(/\ last'.op = "set" /\ ~isArray(last'.w) /\ heap[last'.w].ob # NoDep
      /\ \A i \in 1..Len(heap[last'.w].own) : heap[last'.w].own[i] # last'.p) =>
       IF heap[last'.w].vmCount = 0
       THEN /\ heap'[last'.w].f[last'.p].val = last'.v
            /\ heap'[last'.w].f[last'.p].dep = depUid
            /\ depUid \notin DOMAIN subs
            /\ \E i \in 1..Len(heap'[last'.w].own) : heap'[last'.w].own[i] = last'.p
            /\ Count(trace', <<"notify", heap[last'.w].ob>>) = 1
            /\ \A w \in 1..Len(watchers) :
                 Count(subs[heap[last'.w].ob], w) > 0 => DidTo(trace', "update", w)
       ELSE /\ UNCHANGED <<heap, subs, val, watchers, queue, depUid>>
            /\ trace' = IF production THEN <<>>
                        ELSE <<<<"warnset", heap[last'.w].ob>>>>]_vars

\* set of a new key on an object that is also the root data of a vm: refused
C17_Witness ==
  /\ last.op = "set" /\ last.w = O1 /\ last.p = "z"
  /\ heap[O1].ob # NoDep /\ heap[O1].vmCount = 1
  /\ heap[O1].f["z"] = NoField
  /\ trace = <<<<"warnset", heap[O1].ob>>>>
  /\ Count(subs[heap[O1].ob], 1) = 1

\* C18: no write is buffered. An assignment stores the value before the first
\* subscriber is updated: a watcher whose getter returns the property (or
\* the lesser of it and 1) and that is evaluated inside the assignment gets
\* the value assigned, and the property holds that value when the assignment
\* returns; until the property is set again it keeps it, and every watcher
\* evaluated later, in a flush or a read, gets it. Only watcher runs are
\* deferred, to the queue.
C18_NoWriteBuffered ==
  [][\A p \in PropSet :
       /\ (last'.op = "write" /\ last'.p = p
             /\ Count(trace', <<"set", PropDep(p)>>) <= 1) => val'[p] = last'.v
       /\ ~DidTo(trace', "set", PropDep(p)) => val'[p] = val[p]
       /\ \A w \in 1..Len(watchers') :
            (/\ DidTo(trace', "get", w)
             /\ Options(w).getter.kind \in {"last", "min1"}
             /\ Options(w).getter.srcs[Len(Options(w).getter.srcs)] = Prop(p)
             /\ \/ ~DidTo(trace', "set", PropDep(p))
                \/ /\ last'.op = "write" /\ last'.p = p
                   /\ Count(trace', <<"set", PropDep(p)>>) = 1) =>
              watchers'[w].value =
                IF Options(w).getter.kind = "min1" THEN JsMin1(val'[p])
                ELSE val'[p]]_vars

\* an assignment that changed a: the computed watcher 1, which has a
\* subscriber, was evaluated inside it and has the lesser of the new value
\* and 1, while the user watcher 4 is only queued and still has the old value
C18_Witness ==
  /\ scenario = "diamond" /\ last.op = "write" /\ last.p = "a" /\ last.v = 2
  /\ val["a"] = 2
  /\ DidTo(trace, "get", 1) /\ watchers[1].value = 1
  /\ Len(watchers) = 4 /\ DidTo(trace, "queue", 4) /\ ~DidTo(trace, "get", 4)
  /\ watchers[4].value # 2

\* C19: no Dep has the same watcher twice in its subs, whatever evaluations
\* (a getter reading one property twice, a computed watcher evaluated inside
\* another watcher), writes, flushes and teardowns have happened.
C19_SubscribedOnce ==
  \A d \in DOMAIN subs : \A w \in 1..Len(watchers) : Count(subs[d], w) <= 1

\* after a teardown, a flush has evaluated again watcher 4, whose getter reads
\* a twice: the Dep of a has it once
C19_Witness ==
  /\ scenario = "teardown" /\ torn # {}
  /\ last.op = "flushStep" /\ last.w = 4
  /\ DidTo(trace, "get", 4) /\ Count(subs[PropDep("a")], 4) = 1
  /\ FirstReads(Options(4).getter) = <<Prop("a"), Prop("a")>>

\* the objects and arrays reachable from the value v in the heap h
Children(h, S) ==
  S \cup {x \in Objs : \E r \in S \cap Objs :
            \/ \E k \in Keys : h[r].f[k].val = x
            \/ \E i \in 1..Len(h[r].elems) : h[r].elems[i] = x}
Reachable(h, v) == Children(h, Children(h, Children(h, {v})))
\* the Deps of the reactive properties of the objects reachable from v
NestedDeps(h, v) ==
  {h[r].f[k].dep : r \in Reachable(h, v) \cap Objs, k \in Keys} \ {NoDep}

\* C20: a deep watcher whose getter returns an observed object is, after each
\* evaluation, in the subs of the Dep of every reactive property reachable
\* from that object. So an assignment that changes a property of a nested
\* object puts the watcher in the queue, its value being the same reference
\* as before, and the flush that runs it calls its callback with that same
\* reference.
C20_DeepWatch ==
  [][\A w \in 1..Len(watchers') :
       (Options(w).deep /\ watchers'[w].active) =>
         /\ (DidTo(trace', "get", w) /\ watchers'[w].value \in Objs) =>
              \A d \in NestedDeps(heap', watchers'[w].value) :
                Count(subs'[d], w) = 1
         /\ (/\ w <= Len(watchers)
             /\ last'.op = "field" /\ Did(trace', "set")
             /\ last'.w \in Reachable(heap, watchers[w].value) \ {watchers[w].value}
             /\ heap[last'.w].f[last'.p].dep # NoDep
             /\ Count(queue, w) = 0) =>
              /\ DidTo(trace', "queue", w) /\ Count(queue', w) = 1
              /\ ~DidTo(trace', "get", w)
              /\ watchers'[w].value = watchers[w].value
         /\ (last'.op = "flushStep" /\ last'.w = w /\ watchers[w].active) =>
              /\ DidTo(trace', "get", w) /\ DidTo(trace', "cb", w)
              /\ watchers'[w].value = watchers[w].value]_vars

\* the flush after y of { x: { y: 1 } } was set to 2 and nothing else was
\* changed: the deep watcher on the outer object has been run and its callback
\* called, its value being the same object
C20_Witness ==
  /\ scenario = "deep" /\ last.op = "flushStep" /\ last.w = 1
  /\ heap[O1].f["x"].val = O2 /\ heap[O1].f["z"] = NoField
  /\ heap[O2].f["y"].val = 2
  /\ watchers[1].value = O1
  /\ DidTo(trace, "get", 1) /\ DidTo(trace, "cb", 1)
  /\ Count(subs[heap[O2].f["y"].dep], 1) = 1

\* C21 as stated: while a flush is running, queueWatcher puts a node that is
\* not queued after the cursor, behind the waiting nodes of smaller or equal id
\* and before those of greater id, so that the nodes after the cursor are in
\* ascending id order at every step; and every node so inserted has been run
\* when the loop of that flush is over.
C21_Original ==
  [][last'.op = "flushStep" =>
       /\ SubSeq(queue', 1, index + 1) = SubSeq(queue, 1, index + 1)
       /\ \A i, j \in (index + 2)..Len(queue') : i < j => queue'[i] < queue'[j]
       /\ {queue'[i] : i \in (index + 2)..Len(queue')}
            = {queue[i] : i \in (index + 2)..Len(queue)}
                \cup {w \in WatcherIds : DidTo(trace', "queue", w)}
       /\ runLog' = SubSeq(queue', 1, index + 1)
       /\ pc' = "post" => runLog' = queue']_vars

\* C21, amended: the same, the inserted nodes having been run when the loop of
\* that flush is over unless the check for circular updates has stopped it.
C21_InsertedInOrder ==
  [][last'.op = "flushStep" =>
       /\ SubSeq(queue', 1, index + 1) = SubSeq(queue, 1, index + 1)
       /\ \A i, j \in (index + 2)..Len(queue') : i < j => queue'[i] < queue'[j]
       /\ {queue'[i] : i \in (index + 2)..Len(queue')}
            = {queue[i] : i \in (index + 2)..Len(queue)}
                \cup {w \in WatcherIds : DidTo(trace', "queue", w)}
       /\ runLog' = SubSeq(queue', 1, index + 1)
       /\ (pc' = "post" /\ ~warned') => runLog' = queue'
       /\ (pc' = "post" /\ warned') =>
            /\ Did(trace', "queue") /\ index' = index
            /\ Len(runLog') < Len(queue')]_vars

\* the callback of watcher 4, run second of <<3, 4>>, has queued watcher 3
\* again: it was put behind the cursor and run before the loop ended
C21_Witness ==
  /\ scenario = "sync" /\ pc = "post" /\ ~warned /\ last.op = "flushStep"
  /\ enqOrder = <<3, 4>> /\ queue = <<3, 4, 3>> /\ runLog = queue

\* C22: Watcher.get() pops the target stack and runs cleanupDeps whether the
\* getter returns or throws. Between the steps nothing is left behind: no
\* target, an empty stack, empty newDeps and newDepIds; and get() called on any
\* watcher, with no target or with another watcher as the target, leaves that
\* target and stack and empty newDeps and newDepIds. If the getter threw, a
\* user watcher has reported the error and get() returns undefined, any other
\* watcher lets the exception go on to its caller.
C22_GetRestores ==
  /\ target = None /\ targetStack = <<>>
  /\ \A w \in 1..Len(watchers) :
       /\ watchers[w].newDeps = <<>> /\ watchers[w].newDepIds = {}
       /\ \A t \in {None} \cup (1..Len(watchers)) :
            LET s0 == [Cur EXCEPT !.target = t, !.trace = <<>>]
                r == get(s0, w)
            IN /\ r.s.target = t /\ r.s.targetStack = <<>>
               /\ r.s.watchers[w].newDeps = <<>>
               /\ r.s.watchers[w].newDepIds = {}
               /\ r.s.watchers[w].depIds
                    = {r.s.watchers[w].deps[i] : i \in 1..Len(r.s.watchers[w].deps)}
               /\ Did(r.s.trace, "throw") =>
                    IF Options(w).user
                    THEN /\ ~r.s.exc /\ r.v = Undefined
                         /\ DidTo(r.s.trace, "error", w)
                    ELSE r.s.exc /\ ~Did(r.s.trace, "error")

\* the getter of the render watcher 2 has thrown in a flush and the exception
\* has left the flush: the watcher still subscribes to what it read
C22_Witness ==
  /\ scenario = "throw" /\ last.op = "flushStep" /\ last.w = 2 /\ escaped
  /\ DidTo(trace, "throw", 0) /\ ~Did(trace, "error")
  /\ target = None /\ watchers[2].newDeps = <<>>
  /\ watchers[2].deps = <<PropDep("b")>> /\ Count(subs[PropDep("b")], 2) = 1

\* C23: when a step has evaluated a watcher that is active afterwards, the
\* Deps whose subs hold the watcher are exactly the Deps depend() was called on
\* while the watcher was the target in that evaluation, and deps and depIds
\* name exactly those Deps; also when the getter's own write made the watcher
\* run again while its evaluation was under way.
C23_SubscribedToReads ==
  [][\A w \in 1..Len(watchers') :
       (DidTo(trace', "get", w) /\ watchers'[w].active) =>
         /\ {d \in DOMAIN subs' : Count(subs'[d], w) > 0} = reads'[w]
         /\ watchers'[w].depIds = reads'[w]
         /\ {watchers'[w].deps[i] : i \in 1..Len(watchers'[w].deps)} = reads'[w]
         /\ Len(watchers'[w].deps) = Cardinality(reads'[w])]_vars

\* the watchers update() was called on in a trace, in order
RECURSIVE Updated(_)
Updated(tr) ==
  IF tr = <<>> THEN <<>>
  ELSE (IF tr[1][1] = "update" THEN <<tr[1][2]>> ELSE <<>>) \o Updated(Tail(tr))

\* C24: Dep.notify() calls update() on the watchers that were in subs when it
\* started, once each, in the order of subs. In an assignment that makes one
\* notify, the watchers updated are, in order, the subs of the property's Dep
\* before the assignment: one torn down by an earlier subscriber's callback is
\* still updated, one that subscribed during the pass is not.
C24_NotifySnapshot ==
  [][(last'.op = "write"
        /\ Cardinality({i \in 1..Len(trace') : trace'[i][1] = "notify"}) = 1) =>
       Updated(trace') = subs[PropDep(last'.p)]]_vars

\* the assignment b = 1 notified <<2, 3>>: the run of the sync watcher 2 made
\* the computed watcher 1 subscribe to b and its callback tore watcher 3 down,
\* and update() was then called on 3 and not on 1
C24_Witness ==
  /\ scenario = "snapshot" /\ last.op = "write" /\ last.p = "b"
  /\ Updated(trace) = <<2, 3>>
  /\ subs[PropDep("b")] = <<2, 1>>
  /\ DidTo(trace, "teardown", 3) /\ ~watchers[3].active /\ Count(queue, 3) = 1

\* C25: pushTarget and popTarget are a stack. For any target t0 at the start,
\* a pushTarget(t1) with a pushTarget(t2) and its popTarget nested inside it,
\* t1 and t2 being watchers or nothing, the inner popTarget leaves the target
\* t1 and the outer one leaves t0. Hence a render watcher that calls getData
\* in its getter, the data function reading a computed property, is the
\* target again after getData and subscribes to what it reads then.
C25_TargetStack ==
  /\ \A t0, t1, t2 \in {None} \cup (1..Len(watchers)) :
       LET s1 == pushTarget([Cur EXCEPT !.target = t0], t1)
           s3 == popTarget(pushTarget(s1, t2))
       IN /\ s3.target = t1 /\ s3.targetStack = s1.targetStack
          /\ popTarget(s3).target = t0 /\ popTarget(s3).targetStack = <<>>
  /\ \A w \in 1..Len(watchers) :
       (Options(w).getter.kind = "getdata" /\ watchers[w].active) =>
         Count(subs[PropDep(Options(w).getter.srcs[4].p)], w) = 1

\* C26: between the pushTarget() of getData and its popTarget() nothing is
\* recorded for the watcher that was the target before: after an evaluation
\* of a watcher whose getter calls getData, the watcher is not in the subs of
\* the property the data function reads, be it after a computed property
\* whose watcher was evaluated inside the data function, nor in the subs of
\* that computed watcher's Dep.
C26_RecordingSuspended ==
  [][\A w \in 1..Len(watchers') :
       (Options(w).getter.kind = "getdata" /\ DidTo(trace', "get", w)) =>
         /\ Count(subs'[PropDep(Options(w).getter.srcs[3].p)], w) = 0
         /\ Count(subs'[watchers'[Options(w).getter.srcs[2].w].dep], w) = 0]_vars

\* the reactive properties: those of the vm's data and those defineReactive
\* has installed on the objects of the heap, each with its Dep, its value and
\* the childOb of its closure
ReactiveProperties(v, c, h) ==
  {[dep |-> PropDep(p), val |-> v[p], childOb |-> c[p]] : p \in PropSet}
    \cup {h[x[1]].f[x[2]] :
            x \in {y \in Objs \X Keys : h[y[1]].f[y[2]].dep # NoDep}}

\* C27 as stated: in every state, a reactive property whose value is an object
\* or an array has the Observer of that value as its childOb.
C27_Original ==
  \A q \in ReactiveProperties(val, childOb, heap) :
    isObject(q.val) =>
      /\ q.val \in Objs /\ heap[q.val].ob # NoDep
      /\ q.childOb = heap[q.val].ob

\* observe(x) gives an Observer in the state with heap h and flag so: x is an
\* extensible object or array that has its Observer already or is observed now
Wrappable(h, so, x) == x \in Objs /\ (h[x].ob # NoDep \/ so)

\* the childOb that defineReactive or the setter leaves for the value x, h and
\* so being the heap and shouldObserve before, h2 the heap after
ChildObOf(h, so, h2, x, c) ==
  IF Wrappable(h, so, x)
  THEN h2[x].ob # NoDep /\ c = h2[x].ob
  ELSE c = NoDep /\ (x \in Objs => h2[x].ob = NoDep)

\* the Deps of Observers that reading the property q records with the watcher
ChildDeps(h, q) ==
  IF q.childOb = NoDep THEN {}
  ELSE {q.childOb} \cup {h[h[q.val].elems[i]].ob :
                          i \in {j \in 1..Len(h[q.val].elems) :
                                   hasOb([heap |-> h], h[q.val].elems[j])}}

\* C27, amended: a property installed with, or assigned, an extensible object
\* or array that has its Observer already, or while shouldObserve is true, has
\* the Observer of the value as its childOb; installed with or assigned a
\* frozen object, or an object without Observer while shouldObserve is false,
\* it has no childOb and the value gets no Observer. The childOb of a property
\* is never anything but the Observer of its current value. A watcher that
\* reads a property with a childOb is, after its evaluation, in the subs of
\* the childOb's Dep and of the Dep of the Observer of each element of the
\* value if it is an array; and a watcher that is not deep records the Dep of
\* an Observer only through a property that has it as childOb, so that a
\* property without childOb gives it its own Dep only.
C27_ChildObLinked ==
  /\ \A q \in ReactiveProperties(val, childOb, heap) :
       isObject(q.val) => ChildObOf(RawHeap, TRUE, heap, q.val, q.childOb)
  /\ [][LET props == ReactiveProperties(val', childOb', heap')
              ran == {w \in 1..Len(watchers') :
                        DidTo(trace', "get", w) /\ watchers'[w].active}
          IN
        /\ \A q \in props :
             /\ q.childOb # NoDep => (q.val \in Objs /\ heap'[q.val].ob = q.childOb)
             /\ \A w \in ran :
                  q.dep \in reads'[w] =>
                    \A d \in ChildDeps(heap', q) : Count(subs'[d], w) = 1
        /\ \A w \in ran :
             ~Options(w).deep =>
               \A d \in reads'[w] :
                 (\E x \in Objs : heap'[x].ob = d) =>
                   \E q \in props :
                     q.dep \in reads'[w] /\ d \in ChildDeps(heap', q)
        /\ (last'.op = "write" /\ Did(trace', "set") /\ isObject(last'.v)) =>
             ChildObOf(heap, shouldObserve, heap', last'.v, childOb'[last'.p])
        /\ (last'.op = "field" /\ Did(trace', "set") /\ isObject(last'.v)) =>
             ChildObOf(heap, shouldObserve, heap', last'.v,
                       heap'[last'.w].f[last'.p].childOb)
        /\ \A y \in Objs : \A k \in Keys :
             (/\ heap[y].f[k].dep = NoDep /\ heap'[y].f[k].dep # NoDep
              /\ isObject(heap'[y].f[k].val)) =>
               ChildObOf(heap, shouldObserve, heap', heap'[y].f[k].val,
                         heap'[y].f[k].childOb)]_vars

\* observation is suspended and x of the object o, which held an object
\* assigned during the suspension and left without Observer, is given the
\* object it held at first: that one has kept its Observer, which is the
\* childOb of x again, and the watcher that reads o.x.y is in its subs
C27_Witness ==
  /\ scenario = "suspend" /\ last.op = "field" /\ last.p = "x" /\ last.v = O2
  /\ Did(trace, "set") /\ ~shouldObserve
  /\ heap[O3].ob = NoDep
  /\ heap[O2].ob # NoDep /\ heap[O1].f["x"].childOb = heap[O2].ob
  /\ Len(watchers) = 1 /\ Count(subs[heap[O2].ob], 1) = 1

\* C28: set(arr, i, val) on an array that has an Observer leaves arr[i] = val
\* and arr.length = max(old length, i + 1), the other elements as they were
\* and the new ones in between undefined; observe has been applied to val, so
\* that an extensible object has its Observer (observation being on); and
\* notify has been called once on the Dep of the array's Observer, right after
\* the mutation and the observation of val.
C28_SetOnArray ==
  [][(last'.op = "set" /\ isArray(last'.w) /\ heap[last'.w].ob # NoDep) =>
       LET arr == last'.w
           i == last'.v
           x == (CHOOSE t \in SetInputs(scenario) : t[1] = arr /\ t[2] = i)[3]
           old == heap[arr].elems
           new == heap'[arr].elems
       IN /\ Len(new) = IF Len(old) > i + 1 THEN Len(old) ELSE i + 1
          /\ new[i + 1] = x
          /\ \A j \in 1..Len(new) :
               j # i + 1 => new[j] = IF j <= Len(old) THEN old[j] ELSE Undefined
          /\ (x \in Objs /\ shouldObserve) => heap'[x].ob # NoDep
          /\ Count(trace', <<"notify", heap[arr].ob>>) = 1
          /\ \E k \in 1..Len(trace') :
               /\ trace'[k] = <<"notify", heap[arr].ob>>
               /\ \A j \in 1..(k - 1) : trace'[j][1] \in {"mutate", "observer"}
          /\ \A w \in 1..Len(watchers) :
               Count(subs[heap[arr].ob], w) > 0 => DidTo(trace', "update", w)]_vars

\* set(arr, 2, obj) on the array [1]: the array is [1, undefined, obj], obj
\* has got its Observer and the Dep of the array's Observer was notified
C28_Witness ==
  /\ last.op = "set" /\ last.w = A1 /\ last.v = 2
  /\ heap[A1].elems = <<1, Undefined, O3>>
  /\ DidTo(trace, "observer", O3) /\ heap[O3].ob # NoDep
  /\ DidTo(trace, "notify", heap[A1].ob) /\ DidTo(trace, "update", 1)
  /\ watchers[1].value = 3

\* C29 as stated: del(target, key) on a plain object leaves the object as it
\* is and notifies no Dep if key is not an own property; removes the key and
\* notifies the Dep of the object's Observer exactly once if key is an own
\* property and the object has an Observer, whatever the Observer's vmCount
\* is; removes the key and notifies no Dep if the object has no Observer.
C29_Original ==
  [][(last'.op = "del" /\ ~isArray(last'.w)) =>
       LET o == last'.w
           k == last'.p
       IN IF ~\E i \in 1..Len(heap[o].own) : heap[o].own[i] = k
          THEN /\ heap' = heap
               /\ \A j \in 1..Len(trace') : trace'[j][1] # "notify"
          ELSE /\ heap' = [heap EXCEPT ![o].own = SelectSeq(@, LAMBDA x : x # k),
                                       ![o].f[k] = NoField]
               /\ IF heap[o].ob # NoDep
                  THEN Count(trace', <<"notify", heap[o].ob>>) = 1
                  ELSE \A j \in 1..Len(trace') : trace'[j][1] # "notify"]_vars

\* C29, amended: del(target, key) on a plain object leaves the object as it
\* is and notifies no Dep if key is not an own property; if key is an own
\* property and the object has an Observer whose vmCount is zero, it removes
\* the key and notifies the Dep of the object's Observer exactly once, updating
\* each of its subscribers; if the Observer's vmCount is not zero, it removes
\* nothing and notifies nothing, and only warns in a build that is not
\* production; if the object has no Observer, it removes the key and notifies
\* no Dep.
C29_Del ==
  [][(last'.op = "del" /\ ~isArray(last'.w)) =>
       LET o == last'.w
           k == last'.p
       IN IF heap[o].ob # NoDep /\ heap[o].vmCount > 0
          THEN /\ UNCHANGED <<heap, subs, val, watchers, queue, depUid>>
               /\ trace' = IF production THEN <<>>
                           ELSE <<<<"warndel", heap[o].ob>>>>
          ELSE IF ~\E i \in 1..Len(heap[o].own) : heap[o].own[i] = k
          THEN /\ UNCHANGED <<heap, subs, val, watchers, queue, depUid>>
               /\ trace' = <<>>
          ELSE /\ heap' = [heap EXCEPT ![o].own = SelectSeq(@, LAMBDA x : x # k),
                                       ![o].f[k] = NoField]
               /\ IF heap[o].ob # NoDep
                  THEN /\ Count(trace', <<"notify", heap[o].ob>>) = 1
                       /\ trace'[1] = <<"notify", heap[o].ob>>
                       /\ \A w \in 1..Len(watchers) :
                            Count(subs[heap[o].ob], w) > 0 =>
                              DidTo(trace', "update", w)
                  ELSE /\ trace' = <<>>
                       /\ UNCHANGED <<subs, val, watchers, queue>>]_vars

\* del of the key x of the observed object vm.o, which both watchers have
\* read: the key is gone and both watchers are queued
C29_Witness ==
  /\ last.op = "del" /\ last.w = O1 /\ last.p = "x"
  /\ heap[O1].ob # NoDep /\ heap[O1].vmCount = 0
  /\ heap[O1].own = <<>> /\ heap[O1].f["x"] = NoField
  /\ Count(trace, <<"notify", heap[O1].ob>>) = 1
  /\ Count(subs[heap[O1].ob], 1) = 1 /\ DidTo(trace, "update", 1)
  /\ DidTo(trace, "update", 2) /\ Len(queue) = 2

\* the watchers that the "queue" events of a trace name, in order
RECURSIVE Queued(_)
Queued(tr) ==
  IF tr = <<>> THEN <<>>
  ELSE IF tr[1][1] = "queue" THEN <<tr[1][2]>> \o Queued(Tail(tr))
  ELSE Queued(Tail(tr))

\* C30: flushSchedulerQueue resets the scheduler before it calls any activated
\* or updated hook. When the end of a flush has run, the cursor is 0 and
\* flushing is false; the queue holds exactly the watchers that the writes of
\* the hooks have queued, in the order they were queued, and nothing of the
\* finished queue; the presence map marks exactly these watchers and
\* activatedChildren is empty; and if a hook has queued a watcher, waiting is
\* true and one new flush has been handed to nextTick, otherwise waiting is
\* false and no flush is scheduled.
C30_ResetBeforeHooks ==
  [][last'.op = "flushEnd" =>
       /\ index' = 0 /\ ~flushing' /\ activatedChildren' = <<>>
       /\ queue' = Queued(trace')
       /\ \A w \in WatcherIds : has'[w] <=> \E i \in 1..Len(queue') : queue'[i] = w
       /\ ~production => \A w \in WatcherIds : circular'[w] = 0
       /\ waiting' = (queue' # <<>>)
       /\ callbacks' = callbacks + (IF queue' # <<>> THEN 1 ELSE 0)
       /\ Count(trace', <<"nextTick", 0>>) = (IF queue' # <<>> THEN 1 ELSE 0)
       /\ \A k \in 1..Len(trace') :
            trace'[k][1] = "activated" =>
              \A j \in 1..Len(trace') : trace'[j][1] = "updated" => k < j]_vars

\* the end of a flush that ran the render watcher and queued two kept-alive
\* children: the activated hooks run (c already holds a, written before the
\* render), the updated hook writes b, and the two watchers that read b are
\* in a new queue with a new flush scheduled
C30_Witness ==
  /\ last.op = "flushEnd" /\ scenario = "hook"
  /\ DidTo(trace, "activated", 1) /\ DidTo(trace, "activated", 2)
  /\ DidTo(trace, "updated", 2)
  /\ DidTo(trace, "set", PropDep("b")) /\ val["c"] = val["a"]
  /\ queue = <<1, 2>> /\ has[1] /\ has[2]
  /\ waiting /\ ~flushing /\ index = 0 /\ callbacks = 1
  /\ runLog = <<2, 1>>

\* the children or watchers that the events e of a trace name, in order
RECURSIVE Named(_, _)
Named(tr, e) ==
  IF tr = <<>> THEN <<>>
  ELSE IF tr[1][1] = e THEN <<tr[1][2]>> \o Named(Tail(tr), e)
  ELSE Named(Tail(tr), e)

\* C31: at the end of a flush the activated hooks are called in the order the
\* children were queued, then the updated hook is called for the occurrences
\* of the render watcher of the mounted vm in the queue, last occurrence
\* first, and only for watchers the flush has run, also when the
\* infinite-update-loop guard has stopped the flush: a watcher the loop never
\* reached gets no updated hook.
C31_UpdatedOnlyForRun ==
  [][last'.op = "flushEnd" =>
       /\ Named(trace', "activated") = activatedChildren
       /\ \A k \in 1..Len(trace') :
            trace'[k][1] = "activated" =>
              \A j \in 1..Len(trace') : trace'[j][1] = "updated" => k < j
       /\ \A k \in 1..Len(trace') :
            trace'[k][1] = "updated" =>
              /\ trace'[k][2] = Hooks(scenario).watcher
              /\ \E i \in 1..Len(runLog) : runLog[i] = trace'[k][2]
       /\ Len(Named(trace', "updated"))
            = Cardinality({i \in 1..Len(runLog) :
                             runLog[i] = Hooks(scenario).watcher})]_vars

\* C32: when the infinite-update-loop guard has stopped a flush, the end of
\* the flush leaves the watchers as the loop left them and keeps what the loop
\* has not processed pending: every watcher that stands in the queue behind
\* the one the loop stopped at, with its presence mark set, is still in the
\* queue and still marked when the flush has ended, and no flush is scheduled
\* for it.
C32_UnprocessedStayPending ==
  [][(last'.op = "flushEnd" /\ warned) =>
       /\ watchers' = watchers /\ val' = val
       /\ \A i \in (index + 2)..Len(queue) :
            has[queue[i]] =>
              /\ has'[queue[i]]
              /\ \E j \in 1..Len(queue') : queue'[j] = queue[i]
       /\ callbacks' = callbacks]_vars

\* C33 as stated: run() on an active watcher evaluates the getter and calls
\* the callback if and only if the watcher is deep, or the new value is an
\* object, or the new value differs from the cached one by the rule of the
\* property setter, for which NaN over NaN is no change; otherwise the cached
\* value is kept.
C33_Original ==
  [][(last'.op = "flushStep" /\ watchers[last'.w].active) =>
       LET w == last'.w
           r == get(Cur, w)
           old == watchers[w].value
       IN ~r.s.exc =>
            /\ DidTo(trace', "get", w)
            /\ IF \/ Options(w).deep
                  \/ isObject(r.v)
                  \/ ~(StrictEq(r.v, old)
                         \/ (~StrictEq(r.v, r.v) /\ ~StrictEq(old, old)))
               THEN DidTo(trace', "cb", w) /\ watchers'[w].value = r.v
               ELSE ~DidTo(trace', "cb", w) /\ watchers'[w].value = old]_vars

\* C33, amended: run() on an active watcher evaluates the getter and calls the
\* callback with the new value if and only if the watcher is deep, or the new
\* value is an object, or the new value is not strictly equal (!==) to the
\* cached one, so that NaN over NaN counts as a change, unlike in the property
\* setter; otherwise the callback is not called and the cached value is kept.
C33_RunInvokes ==
  [][(last'.op = "flushStep" /\ watchers[last'.w].active) =>
       LET w == last'.w
           r == get(Cur, w)
           old == watchers[w].value
       IN ~r.s.exc =>
            /\ DidTo(trace', "get", w)
            /\ IF Options(w).deep \/ isObject(r.v) \/ ~StrictEq(r.v, old)
               THEN /\ DidTo(trace', "cb", w) /\ watchers'[w].value = r.v
                    /\ Options(w).cb.kind = "copy" => val'[Options(w).cb.wr] = r.v
               ELSE ~DidTo(trace', "cb", w) /\ watchers'[w].value = old]_vars

\* the render watcher of scenario cycle, which returns a + b, has been run
\* after a write to b alone while a is NaN: its value was NaN and is NaN, and
\* its callback has been called
C33_Witness ==
  /\ last.op = "flushStep" /\ last.w = 2 /\ scenario = "cycle"
  /\ val["a"] = NaN /\ watchers[2].value = NaN
  /\ DidTo(trace, "get", 2) /\ DidTo(trace, "cb", 2)
  /\ due = {2} /\ runLog = <<2>>

\* C34: a computed watcher is created dirty, with no value and without its
\* getter being run. A read of the computed property runs the getter exactly
\* once if the watcher is dirty and not at all if it is clean, leaves the
\* watcher clean and returns the cached value; a read that follows a read of
\* the same property, nothing having been written in between, does not run the
\* getter and returns the same value.
C34_EvaluateCached ==
  [][/\ (last'.op = "new" /\ Options(last'.w).computed) =>
          /\ watchers'[last'.w].dirty
          /\ watchers'[last'.w].value = Undefined
          /\ ~DidTo(trace', "get", last'.w)
     /\ last'.op = "read" =>
          LET w == last'.w
          IN /\ Count(trace', <<"get", w>>) = (IF watchers[w].dirty THEN 1 ELSE 0)
             /\ ~escaped' => (~watchers'[w].dirty /\ last'.v = watchers'[w].value)
             /\ ~watchers[w].dirty =>
                  (last'.v = watchers[w].value /\ watchers' = watchers)
             /\ (last.op = "read" /\ last.w = w /\ ~escaped) =>
                  (~DidTo(trace', "get", w) /\ last'.v = last.v)]_vars

\* the second of two reads of the computed property a + b of scenario diamond,
\* with a = 1 and b = 1: the getter is not run and the value is the cached 2
C34_Witness ==
  /\ scenario = "diamond" /\ last.op = "read" /\ last.w = 2
  /\ val["a"] = 1 /\ val["b"] = 1 /\ last.v = 2 /\ watchers[2].value = 2
  /\ ~watchers[2].dirty /\ trace = <<<<"read", 2>>>>

\* C35: every watcher queueWatcher has accepted is run by the flush. When the
\* for loop of a flush has ended without the infinite-update-loop warning, the
\* flush has run the queue entry by entry, the watchers accepted while it was
\* running included, and no watcher is marked as present any more; and a
\* flush never goes on for ever past an accepted watcher: whenever the loop is
\* back in a configuration it was in before, every watcher still waiting in
\* the queue has been run by this flush.
C35_AcceptedIsRun ==
  /\ (pc = "post" /\ ~warned) =>
        /\ runLog = queue /\ index = Len(queue)
        /\ \A w \in WatcherIds : ~has[w]
  /\ (pc = "loop" /\ Configuration \in mark) =>
        \A i \in (index + 1)..Len(queue) :
           \E j \in 1..Len(runLog) : runLog[j] = queue[i]

\* the position in the queue of the first watcher the flush has not run yet:
\* the cursor stands on a watcher that has been run when the loop was left by
\* the break of the guard, or by an exception (flushing then stays set)
NotYetRunFrom ==
  IF (pc = "post" /\ warned) \/ (pc = "idle" /\ flushing)
  THEN index + 2 ELSE index + 1

\* C36: in every state the presence map agrees with the queue. has[id] is set
\* exactly for the watchers that stand in the part of the queue that has not
\* been run yet, which is the whole queue while no flush is running; no
\* watcher stands twice in that part, so that a watcher stands a second time
\* in the queue only behind an entry of it that has been run.
C36_HasAgreesWithQueue ==
  /\ \A w \in WatcherIds :
       has[w] <=> \E i \in NotYetRunFrom..Len(queue) : queue[i] = w
  /\ \A i, j \in NotYetRunFrom..Len(queue) : queue[i] = queue[j] => i = j
  /\ \A i, j \in 1..Len(queue) :
       (i < j /\ queue[i] = queue[j]) => i < NotYetRunFrom
  /\ ~flushing => index = 0

\* inside a flush of scenario cycle: watcher 1 has been run twice and stands
\* a third time in the queue, in front of watcher 2, both marked as present
C36_Witness ==
  /\ scenario = "cycle" /\ pc = "loop" /\ flushing
  /\ queue = <<1, 1, 1, 2>> /\ index = 2 /\ runLog = <<1, 1>>
  /\ has[1] /\ has[2] /\ ~has[3]

\* the cache of a computed watcher between two operations: the value of an
\* active computed watcher that is not dirty is the value its getter returns
\* on the data as they are, and a read of a computed property made by code
\* outside the watchers returns that value.
C37_CacheCoherent ==
  /\ \A w \in 1..Len(watchers) :
       (Options(w).computed /\ watchers[w].active /\ ~watchers[w].dirty) =>
          watchers[w].value = getter([Cur EXCEPT !.target = None], w).v
  /\ (last.op = "read" /\ watchers[last.w].active /\ ~escaped) =>
        last.v = getter([Cur EXCEPT !.target = None], last.w).v

\* scenario chain, the render watcher torn down and a = 2 written: a read of
\* the computed a + min(a, 1), which has no subscriber, runs its getter and
\* returns (2 + 1) % Modulus, the computed min(a, 1) under it holding 1
C37_Witness ==
  /\ scenario = "chain" /\ last.op = "read" /\ last.w = 2
  /\ 3 \in torn /\ subs[watchers[2].dep] = <<>>
  /\ val["a"] = 2 /\ last.v = JsAddMod(2, 1) /\ watchers[2].value = last.v
  /\ ~watchers[2].dirty /\ DidTo(trace, "get", 2)
  /\ watchers[1].value = 1 /\ ~watchers[1].dirty

\* C37: the cache of a computed watcher is coherent and no read of a computed
\* property returns a stale value: between two operations every clean active
\* computed watcher holds what its getter returns on the data as they are,
\* and no read made during an operation, by outside code or by the getter of
\* a watcher that a write notifies, has returned a cached value other than
\* the one the getter gave on the data of that moment.
C37_NeverStale == C37_CacheCoherent /\ stale = {}
====
